---- MODULE Spec2Model ----
(***************************************************************************)
(* Motion-control core of the liquid-handling robot:                       *)
(*   - the deck-calibration session (deck_calibration/endpoints.py),       *)
(*   - the arc planner of Robot.move_to (robot/robot.py),                  *)
(*   - the stepper driver's limit-switch recovery, its wire protocol, its  *)
(*     pause gate and its motor currents, as pinned down by the contract   *)
(*     test tests/opentrons/drivers/test_driver.py,                        *)
(*   - the deck and the memoized Robot.max_deck_height (robot/robot.py).   *)
(* Each part has its own specification over its own variables.             *)
(***************************************************************************)
EXTENDS Integers, Sequences, FiniteSets, TLC

VARIABLES
    session,      \* endpoints.session: the live SessionManager, or NoSession
    nextId,       \* the next value _get_uuid() hands out
    attached,     \* robot.model_by_mount: model string per mount
    instruments,  \* robot._instruments: the mounts holding an instrument
    pos,          \* position of the gantry and of the selected carriage
    gantry,       \* robot.config.gantry_calibration (in memory)
    req,          \* the request received and not yet answered, or NoReq
    resp,         \* the last response and what its handler did
    replaced,     \* history: the ids of the sessions a forced start replaced
    previous_instrument,  \* robot._previous_instrument
    prev_container,       \* robot._prev_container
    use_safest_height,    \* robot._use_safest_height
    inst_z,       \* deck-frame z of each instrument (robot.poses)
    inst_max,     \* inst._max_deck_height() of each instrument
    plan,         \* what the last planner call did
    last_target,  \* history: the container the last move_to call targeted
    current,      \* driver: the current setting of each axis
    homed,        \* driver.homed_flags
    cmd_list,     \* driver: the lines written during the call in progress
    phase,        \* driver: where the call in progress stands
    fault,        \* driver: the axis named by the alarm, or "None"
    moving,       \* driver: the axes of the move in progress
    surfaced,     \* driver: what the last call gave its caller
    pending,      \* wire: the driver call in progress, or "none"
    tries,        \* wire: what the transport did at each write of the send
    bad_reads,    \* wire: malformed position responses read by the call
    driver_position,  \* wire: driver.position
    returned,     \* wire: what the last call gave its caller
    run_flag,     \* gate: driver.run_flag is set
    simulating,   \* gate: driver.simulating
    mover,        \* gate: the thread that issues a motion command
    pose,         \* gate: tracked position of the instrument
    query,        \* gate: the thread that issues a status query
    gate_call,    \* gate: the last pause() or resume() call
    active_current_settings,    \* driver: amperage of each axis when active
    dwelling_current_settings,  \* driver: amperage of each axis when idle
    active_axes,  \* driver: whether each axis is at its active current
    amperage,     \* driver.current: the amperage last sent for each axis
    current_stack,  \* driver: the active settings saved by push
    cur_call,     \* driver: the last call that dealt with currents
    deck_poses,   \* deck: robot.poses below the deck, the frames of each slot
    height_cache, \* deck: what lru_cache holds for max_deck_height
    deck_call     \* deck: the last call on the deck and what it returned

calVars == <<session, nextId, attached, instruments, pos, gantry, req, resp,
             replaced>>
planVars == <<previous_instrument, prev_container, use_safest_height,
              inst_z, inst_max, plan, last_target>>
drvVars == <<current, homed, cmd_list, phase, fault, moving, surfaced>>
wireVars == <<pending, tries, bad_reads, driver_position, returned>>
gateVars == <<run_flag, simulating, mover, pose, query, gate_call>>
curVars == <<active_current_settings, dwelling_current_settings,
             active_axes, amperage, current_stack, cur_call>>
deckVars == <<deck_poses, height_cache, deck_call>>
vars == <<calVars, planVars, drvVars, wireVars, gateVars, curVars, deckVars>>
\* what each part leaves alone
notCal == <<planVars, drvVars, wireVars, gateVars, curVars,
            deckVars>>
notPlan == <<calVars, drvVars, wireVars, gateVars, curVars,
             deckVars>>
notDrv == <<calVars, planVars, wireVars, gateVars, curVars,
            deckVars>>
notWire == <<calVars, planVars, drvVars, gateVars, curVars,
             deckVars>>
notGate == <<calVars, planVars, drvVars, wireVars, curVars,
             deckVars>>
notCur == <<calVars, planVars, drvVars, wireVars, gateVars,
            deckVars>>
notDeck == <<calVars, planVars, drvVars, wireVars, gateVars, curVars>>

(***************************************************************************)
(* Optional values: None is the empty sequence, Some(v) a singleton.       *)
(***************************************************************************)
None == <<>>
Some(v) == <<v>>
IsNone(o) == o = <<>>
Val(o) == o[1]

\* ------------------------------------------------------------------------
\* Bounds of the model
\* ------------------------------------------------------------------------
MaxSessions == 2     \* SessionManager objects created in one run
JogRange == 1        \* jogs are explored up to this distance from a named point

\* ------------------------------------------------------------------------
\* Calibration session: constants
\* ------------------------------------------------------------------------
Mounts == {"left", "right"}
SingleModel == "p300_single"
MultiModel == "p300_multi"
Uncommissioned == "uncommissioned"
PipetteConfigs == {SingleModel, MultiModel}
Channels(model) == IF model = SingleModel THEN 1 ELSE 8

Y_OFFSET_MULTI == 31
mount_offset == <<-34, 0, 0>>
TipLengths == {51}

PointIds == {"1", "2", "3"}

expected_points ==
    [k \in PointIds |->
        CASE k = "1" -> <<0, 0>>
          [] k = "2" -> <<10, 0>>
          [] k = "3" -> <<0, 10>>]

attach_tip_point == <<200, 90, 150>>

SafePointNames == {"1", "2", "3", "attachTip"}

safe_points(name) ==
    CASE name = "1" -> <<expected_points["1"][1] + 5, expected_points["1"][2] + 5, 10>>
      [] name = "2" -> <<expected_points["2"][1] - 5, expected_points["2"][2] + 5, 10>>
      [] name = "3" -> <<expected_points["3"][1] + 5, expected_points["3"][2] - 5, 10>>
      [] name = "attachTip" -> attach_tip_point
      [] OTHER -> <<>>

\* robot_configs._build_config({}, {}).gantry_calibration, and the calibration
\* the robot was loaded with
DefaultCalibration == [kind |-> "default", xy |-> <<>>, z |-> None]
PriorCalibration == [kind |-> "prior", xy |-> <<>>, z |-> None]

NoPoints == [k \in PointIds |-> None]

NoSession ==
    [live |-> FALSE, id |-> 0, pipettes |-> {},
     current_mount |-> "None", current_model |-> "None",
     tip_length |-> None, points |-> NoPoints, z_value |-> None]

\* SessionManager.__init__
SessionManager_Kept(id) == [session EXCEPT !.live = TRUE, !.id = id]

SessionManager(id) ==
    [live |-> TRUE, id |-> id, pipettes |-> {},
     current_mount |-> "None", current_model |-> "None",
     tip_length |-> None, points |-> NoPoints, z_value |-> None]

\* ------------------------------------------------------------------------
\* Requests
\* ------------------------------------------------------------------------
Tokens == {None} \cup {Some(i) : i \in 0..MaxSessions}   \* 0 is never a session id
RouterKeys == {"jog", "move", "save xy", "attach tip", "detach tip",
               "save z", "save transform", "release"}
Commands == RouterKeys \cup {"None", "bogus"}           \* "None": no command field

NoPayload == [axis |-> "None", direction |-> None, step |-> None,
              point |-> "None", tipLength |-> None]

JogPayloads ==
    { [NoPayload EXCEPT !.axis = a, !.direction = d, !.step = st] :
        a \in {"z", "q"}, d \in {None, Some(1), Some(-1)},
        st \in {None, Some(1)} }
PointPayloads ==
    { [NoPayload EXCEPT !.point = pt] : pt \in {"None", "1", "2", "3", "bogus"} }
TipPayloads ==
    { [NoPayload EXCEPT !.tipLength = t] :
        t \in {None, Some(0)} \cup {Some(l) : l \in TipLengths} }

PayloadsFor(command) ==
    CASE command = "jog" -> JogPayloads
      [] command \in {"move", "save xy"} -> PointPayloads
      [] command = "attach tip" -> TipPayloads
      [] OTHER -> {NoPayload}

NoReq == [op |-> "none", force |-> FALSE, token |-> None, command |-> "None",
          data |-> NoPayload]

StartReqs == { [NoReq EXCEPT !.op = "start", !.force = f] : f \in BOOLEAN }

\* every command with every payload under each session id; the bare commands
\* under no token and under a token that was never a session id
DispatchReqs ==
    UNION { { [NoReq EXCEPT !.op = "dispatch", !.token = t, !.command = c, !.data = d] :
                d \in IF Val(t) = 0 THEN {NoPayload} ELSE PayloadsFor(c) } :
            t \in Tokens \ {None}, c \in Commands }
    \cup { [NoReq EXCEPT !.op = "dispatch", !.command = c] : c \in Commands }

\* ------------------------------------------------------------------------
\* Outcome of a handler: the response and the state it leaves
\* ------------------------------------------------------------------------
Response(op, status, msg, handler, motion, persisted) ==
    [op |-> op, status |-> status, msg |-> msg, handler |-> handler,
     motion |-> motion, persisted |-> persisted, command |-> "None",
     token |-> None, force |-> FALSE]

NoResponse == Response("none", 0, "", "none", FALSE, FALSE)

Here(r) ==
    [resp |-> r, session |-> session, instruments |-> instruments,
     pos |-> pos, gantry |-> gantry]

\* the handler answers without touching anything
Answer_Forgetting(handler, status, msg) ==
    [Here(Response("dispatch", status, msg, handler, FALSE, FALSE))
        EXCEPT !.session = [session EXCEPT !.tip_length = None]]

Answer(handler, status, msg) ==
    Here(Response("dispatch", status, msg, handler, FALSE, FALSE))

\* an exception raised inside router[command](data), caught by dispatch
Raised_Fatal(handler, msg) ==
    [Answer(handler, 500, msg) EXCEPT !.session = NoSession]

Raised(handler, msg) == Answer(handler, 500, msg)

MountName(s) == IF s.current_mount = "Z" THEN "left" ELSE "right"

\* ------------------------------------------------------------------------
\* Route functions
\* ------------------------------------------------------------------------
\* deck_calibration.position(axis): x, y of the gantry and z of the carriage
position == <<pos.x, pos.y, pos.z>>

\* deck_calibration.jog(axis, direction, step): a relative move of one axis
jog(axis, direction, step) ==
    CASE axis = "X" -> [pos EXCEPT !.x = @ + direction * step]
      [] axis = "Y" -> [pos EXCEPT !.y = @ + direction * step]
      [] OTHER -> [pos EXCEPT !.z = @ + direction * step]

\* linal.solve(expected, actual): the affine map that takes expected point
\* k to actual point k, by Cramer's rule; the linear part is kept times 10,
\* which is exact for the mechanical reference points
solve(expected, actual) ==
    LET ux == expected[2][1] - expected[1][1]
        uy == expected[2][2] - expected[1][2]
        vx == expected[3][1] - expected[1][1]
        vy == expected[3][2] - expected[1][2]
        det == ux * vy - vx * uy
        px == actual[2][1] - actual[1][1]
        py == actual[2][2] - actual[1][2]
        qx == actual[3][1] - actual[1][1]
        qy == actual[3][2] - actual[1][2]
        a == px * vy - qx * uy
        b == qx * ux - px * vx
        c == py * vy - qy * uy
        d == qy * ux - py * vx
    IN  [tx |-> (det * actual[1][1] - a * expected[1][1]
                    - b * expected[1][2]) \div det,
         ty |-> (det * actual[1][2] - c * expected[1][1]
                    - d * expected[1][2]) \div det,
         a10 |-> (10 * a) \div det, b10 |-> (10 * b) \div det,
         c10 |-> (10 * c) \div det, d10 |-> (10 * d) \div det]

\* linal.add_z(flat_matrix, z): z becomes the z translation
add_z(flat, z) == [kind |-> "solved", xy |-> flat, z |-> z]

attach_tip(data) ==
    IF MountName(session) \notin session.pipettes
    THEN Raised("attach tip", "KeyError")
    ELSE IF IsNone(data.tipLength) \/ data.tipLength = Some(0)
    THEN Answer("attach tip", 400, "tipLength")
    ELSE [Answer("attach tip", 200, "ok") EXCEPT
             !.session = [session EXCEPT !.tip_length = data.tipLength]]

detach_tip_Keeping(data) ==
    IF MountName(session) \notin session.pipettes
    THEN Raised("detach tip", "KeyError")
    ELSE Answer("detach tip", 200, "ok")

detach_tip(data) ==
    IF MountName(session) \notin session.pipettes
    THEN Raised("detach tip", "KeyError")
    ELSE [Answer("detach tip", 200, "ok") EXCEPT
             !.session = [session EXCEPT !.tip_length = None]]

Upper(axis) ==
    CASE axis = "x" -> "X" [] axis = "y" -> "Y" [] axis = "z" -> "Z" [] OTHER -> axis

\* the mutant of JogCheck: the presence of step is checked first
JogCheck_StepFirst(data) ==
    IF IsNone(data.step) THEN "step"
    ELSE IF data.axis \notin {"x", "y", "z"} THEN "axis"
    ELSE IF data.direction \notin {Some(-1), Some(1)} THEN "direction"
    ELSE "ok"

\* the if/elif chain of run_jog: the first check that fails
JogCheck(data) ==
    IF data.axis \notin {"x", "y", "z"} THEN "axis"
    ELSE IF data.direction \notin {Some(-1), Some(1)} THEN "direction"
    ELSE IF IsNone(data.step) THEN "step"
    ELSE "ok"

run_jog(data) ==
    IF JogCheck(data) # "ok"
    THEN Answer("jog", 400, JogCheck(data))
    ELSE LET axis == IF data.axis = "z" THEN session.current_mount ELSE data.axis
         IN  IF axis = "None"
             THEN Raised("jog", "AttributeError")
             ELSE [Here(Response("dispatch", 200, "ok", "jog", TRUE, FALSE)) EXCEPT
                      !.pos = jog(Upper(axis), Val(data.direction), Val(data.step))]

move(data) ==
    LET point == safe_points(data.point)
    IN  IF point # <<>> /\ Len(point) = 3
        THEN IF MountName(session) \notin session.pipettes
             THEN Raised("move", "KeyError")
             ELSE LET multi == Channels(session.current_model) # 1
                      target == IF multi
                                THEN <<point[1], point[2] + Y_OFFSET_MULTI * 2, point[3]>>
                                ELSE point
                  IN  [Here(Response("dispatch", 200, "ok", "move", TRUE, FALSE)) EXCEPT
                          !.pos = [x |-> target[1], y |-> target[2], z |-> target[3]]]
        ELSE Answer("move", 400, "point")

\* `not session.current_mount` of save_xy
MountSelected_Always == TRUE

MountSelected == session.current_mount # "None"

save_xy_Doubled(data) ==
    IF data.point \notin PointIds
    THEN Answer("save xy", 400, "point")
    ELSE IF ~MountSelected
    THEN Answer("save xy", 400, "mount")
    ELSE LET mount == MountName(session)
             x == IF mount = "left" THEN position[1] + mount_offset[1] ELSE position[1]
             y0 == IF mount = "left" THEN position[2] + mount_offset[2] ELSE position[2]
             y == IF Channels(session.current_model) # 1
                  THEN y0 - Y_OFFSET_MULTI * 2 ELSE y0
         IN  IF mount \notin session.pipettes
             THEN Raised("save xy", "KeyError")
             ELSE [Answer("save xy", 200, "ok") EXCEPT
                      !.session = [session EXCEPT !.points[data.point] = Some(<<x, y>>)]]

save_xy(data) ==
    IF data.point \notin PointIds
    THEN Answer("save xy", 400, "point")
    ELSE IF ~MountSelected
    THEN Answer("save xy", 400, "mount")
    ELSE LET mount == MountName(session)
             x == IF mount = "left" THEN position[1] + mount_offset[1] ELSE position[1]
             y0 == IF mount = "left" THEN position[2] + mount_offset[2] ELSE position[2]
             y == IF Channels(session.current_model) # 1 THEN y0 - Y_OFFSET_MULTI ELSE y0
         IN  IF mount \notin session.pipettes
             THEN Raised("save xy", "KeyError")
             ELSE [Answer("save xy", 200, "ok") EXCEPT
                      !.session = [session EXCEPT !.points[data.point] = Some(<<x, y>>)]]

\* pipette_config.load(model).model_offset[-1]
length_offset(model) == 0

save_z(data) ==
    IF IsNone(session.tip_length)
    THEN Answer("save z", 400, "tip length")
    ELSE LET actual_z == position[3]
         IN  [Answer("save z", 200, "ok") EXCEPT
                 !.session = [session EXCEPT !.z_value =
                     Some(actual_z - Val(session.tip_length)
                          + length_offset(session.current_model))]]

save_transform_Crossed(data) ==
    IF \E k \in PointIds : IsNone(session.points[k])
    THEN Answer("save transform", 400, "points")
    ELSE LET expected == <<expected_points["1"], expected_points["2"],
                           expected_points["3"]>>
             actual == <<Val(session.points["1"]), Val(session.points["3"]),
                         Val(session.points["2"])>>
             calibration_matrix ==
                 add_z(solve(expected, actual), session.z_value)
         IN  [Here(Response("dispatch", 200, "ok", "save transform", FALSE, TRUE)) EXCEPT
                 !.gantry = calibration_matrix]

save_transform(data) ==
    IF \E k \in PointIds : IsNone(session.points[k])
    THEN Answer("save transform", 400, "points")
    ELSE LET expected == <<expected_points["1"], expected_points["2"],
                           expected_points["3"]>>
             actual == <<Val(session.points["1"]), Val(session.points["2"]),
                         Val(session.points["3"])>>
             calibration_matrix ==
                 add_z(solve(expected, actual), session.z_value)
         IN  [Here(Response("dispatch", 200, "ok", "save transform", FALSE, TRUE)) EXCEPT
                 !.gantry = calibration_matrix]

release_Kept(data) == Answer("release", 200, "ok")

release(data) ==
    [Answer("release", 200, "ok") EXCEPT !.session = NoSession, !.instruments = {}]

router(command, data) ==
    CASE command = "jog" -> run_jog(data)
      [] command = "move" -> move(data)
      [] command = "save xy" -> save_xy(data)
      [] command = "attach tip" -> attach_tip(data)
      [] command = "detach tip" -> detach_tip(data)
      [] command = "save z" -> save_z(data)
      [] command = "save transform" -> save_transform(data)
      [] command = "release" -> release(data)

\* the mutant of HasSession: dispatch goes on without a session
HasSession_Always == TRUE

\* `if session:` of dispatch
HasSession == session.live

\* the mutant of TokenMatches: any token is taken for the session's
TokenMatches_Any(r) == TRUE

\* `_id == session.id` of dispatch
TokenMatches(r) == Val(r.token) = session.id

\* dispatch(request): what it answers and the state it leaves
dispatch(r) ==
    IF HasSession
    THEN IF IsNone(r.token)
         THEN Answer("none", 400, "token required")
         ELSE IF r.command = "None"
         THEN Answer("none", 400, "command required")
         ELSE IF TokenMatches(r)
         THEN IF r.command \in RouterKeys
              THEN router(r.command, r.data)
              ELSE Raised("none", "KeyError")
         ELSE Answer("none", 403, "invalid token")
    ELSE Answer("none", 418, "session must be started")

\* ------------------------------------------------------------------------
\* Session start
\* ------------------------------------------------------------------------
Recognized(mount) == attached[mount] \in PipetteConfigs

\* instruments._create_pipette_from_config -> Robot.add_instrument: raises when
\* the mount already holds an instrument
add_instrument(held, mount) ==
    IF mount \in held
    THEN [raised |-> TRUE, held |-> held]
    ELSE [raised |-> FALSE, held |-> held \cup {mount}]

\* the two conditional creations at the head of set_current_mount, left first
CreatePipettes(held) ==
    LET l == IF Recognized("left") THEN add_instrument(held, "left")
             ELSE [raised |-> FALSE, held |-> held]
        r == IF l.raised THEN l
             ELSE IF Recognized("right") THEN add_instrument(l.held, "right")
             ELSE l
    IN  r

\* the selection of set_current_mount: "right", "left" or "None"
set_current_mount_LeftFirst ==
    LET left_pipette == Recognized("left")
        right_pipette == Recognized("right")
    IN  IF left_pipette /\ Channels(attached["left"]) = 1 THEN "left"
        ELSE IF right_pipette /\ Channels(attached["right"]) = 1 THEN "right"
        ELSE IF right_pipette THEN "right"
        ELSE IF left_pipette THEN "left"
        ELSE "None"

set_current_mount ==
    LET left_pipette == Recognized("left")
        right_pipette == Recognized("right")
    IN  IF right_pipette /\ Channels(attached["right"]) = 1 THEN "right"
        ELSE IF left_pipette /\ Channels(attached["left"]) = 1 THEN "left"
        ELSE IF right_pipette THEN "right"
        ELSE IF left_pipette THEN "left"
        ELSE "None"

MountAxis(mount) == IF mount = "right" THEN "A" ELSE "Z"

\* init_pipette on a fresh SessionManager
init_pipette(fresh) ==
    LET chosen == set_current_mount
    IN  IF chosen = "None" THEN fresh
        ELSE [fresh EXCEPT !.current_mount = MountAxis(chosen),
                           !.current_model = attached[chosen],
                           !.pipettes = {chosen}]

StartResponse(status, msg) == Response("start", status, msg, "start", FALSE, FALSE)

\* the mutant of MayStart: a live session does not stop a start
MayStart_Always(force) == TRUE

\* `if not session or body.get('force')` of start
MayStart(force) == ~session.live \/ force

\* SessionManager.__init__ replaces robot.config.gantry_calibration
ResetGantry_Kept(calibration) == calibration

ResetGantry(calibration) == DefaultCalibration

\* start(request): what it answers and the state it leaves
start_KeepingOld(force) ==
    IF MayStart(force)
    THEN LET held == IF force THEN {} ELSE instruments
             fresh == SessionManager(nextId)
             made == CreatePipettes(held)
             base == [Here(NoResponse) EXCEPT !.gantry = ResetGantry(gantry),
                                              !.instruments = made.held]
         IN  IF made.raised
             THEN [base EXCEPT !.resp = StartResponse(500, "RuntimeError"),
                               !.session = fresh]
             ELSE IF set_current_mount # "None"
             THEN [base EXCEPT !.resp = StartResponse(201, "token"),
                               !.session = init_pipette(fresh)]
             ELSE [base EXCEPT !.resp = StartResponse(403, "pipette not recognized")]
    ELSE Here(StartResponse(409, "session in progress"))

start(force) ==
    IF MayStart(force)
    THEN LET held == IF force THEN {} ELSE instruments
             fresh == SessionManager(nextId)
             made == CreatePipettes(held)
             base == [Here(NoResponse) EXCEPT !.gantry = ResetGantry(gantry),
                                              !.instruments = made.held]
         IN  IF made.raised
             THEN [base EXCEPT !.resp = StartResponse(500, "RuntimeError"),
                               !.session = fresh]
             ELSE IF set_current_mount # "None"
             THEN [base EXCEPT !.resp = StartResponse(201, "token"),
                               !.session = init_pipette(fresh)]
             ELSE [base EXCEPT !.resp = StartResponse(403, "pipette not recognized"),
                               !.session = NoSession]
    ELSE Here(StartResponse(409, "session in progress"))

\* ------------------------------------------------------------------------
\* Actions of the calibration endpoints
\* ------------------------------------------------------------------------
\* what the endpoint answers to request r in the current state
Outcome(r) == IF r.op = "start" THEN start(r.force) ELSE dispatch(r)

\* jogs are explored between a named point and JogRange above it
InWindow(p) ==
    \/ p = pos
    \/ \E n \in SafePointNames :
          /\ p.x - safe_points(n)[1] \in 0..JogRange
          /\ p.z - safe_points(n)[3] \in 0..JogRange

\* SessionManager objects are created up to MaxSessions
InBounds(r) ==
    /\ InWindow(Outcome(r).pos)
    /\ (r.op = "start" /\ MayStart(r.force)) => nextId <= MaxSessions

\* a request arrives at the server
Receive(r) ==
    /\ req = NoReq
    /\ IF InBounds(r) THEN req' = r ELSE FALSE
    /\ resp' = NoResponse
    /\ UNCHANGED <<session, nextId, attached, instruments, pos, gantry,
                   replaced>>
    /\ UNCHANGED notCal

\* start(request) or dispatch(request) runs to its response
Handle ==
    /\ req # NoReq
    /\ LET o == Outcome(req)
       IN  /\ resp' = [o.resp EXCEPT !.command = req.command,
                                     !.token = req.token,
                                     !.force = req.force]
           /\ session' = o.session
           /\ instruments' = o.instruments
           /\ pos' = o.pos
           /\ gantry' = o.gantry
    /\ nextId' = IF req.op = "start" /\ MayStart(req.force)
                 THEN nextId + 1 ELSE nextId
    /\ replaced' = IF req.op = "start" /\ req.force /\ session.live
                   THEN replaced \cup {session.id} ELSE replaced
    /\ req' = NoReq
    /\ UNCHANGED <<attached, notCal>>

\* between calibrations a protocol loads an attached pipette:
\* Robot.add_instrument
AddInstrument(mount) ==
    /\ req = NoReq
    /\ ~session.live
    /\ Recognized(mount)
    /\ ~add_instrument(instruments, mount).raised
    /\ instruments' = add_instrument(instruments, mount).held
    /\ resp' = NoResponse
    /\ UNCHANGED <<session, nextId, attached, pos, gantry, req, replaced>>
    /\ UNCHANGED notCal

\* the gantry rests where `move` to point "1" puts the attached pipette
RestPosition ==
    [x |-> safe_points("1")[1],
     y |-> IF attached["left"] = MultiModel
           THEN safe_points("1")[2] + Y_OFFSET_MULTI * 2
           ELSE safe_points("1")[2],
     z |-> safe_points("1")[3]]

\* robot.get_attached_pipettes(): what each mount can report
AllAttached == [Mounts -> PipetteConfigs \cup {Uncommissioned}]

\* between requests a pipette is plugged in, taken off or exchanged
Reattach(a) ==
    /\ req = NoReq
    /\ attached # a
    /\ attached' = a
    /\ resp' = NoResponse
    /\ UNCHANGED <<session, nextId, instruments, pos, gantry, req, replaced>>
    /\ UNCHANGED notCal

\* the commands that go to a point and record it, and release
MountReqs ==
    { [NoReq EXCEPT !.op = "dispatch", !.token = Some(i), !.command = c,
                    !.data = d] :
        i \in 1..MaxSessions, c \in {"move", "save xy", "release"},
        d \in { [NoPayload EXCEPT !.point = pt] : pt \in {"1", "2"} } }

\* the tip commands and save z, with a second tip one unit longer
TipReqs ==
    { [NoReq EXCEPT !.op = "dispatch", !.token = Some(i), !.command = c,
                    !.data = d] :
        i \in 1..MaxSessions,
        c \in {"attach tip", "detach tip", "save z", "release"},
        d \in {NoPayload} }
    \cup
    { [NoReq EXCEPT !.op = "dispatch", !.token = Some(i),
                    !.command = "attach tip", !.data = d] :
        i \in 1..MaxSessions,
        d \in { [NoPayload EXCEPT !.tipLength = t] :
                   t \in {Some(0)} \cup {Some(l) : l \in TipLengths}
                          \cup {Some(l + 1) : l \in TipLengths} } }

AttachedConfigs ==
    { [left |-> Uncommissioned, right |-> SingleModel],
      [left |-> MultiModel, right |-> Uncommissioned],
      [left |-> Uncommissioned, right |-> Uncommissioned] }

\* ========================================================================
\* Arc planner: Robot.move_to and Robot._create_arc (robot/robot.py)
\* ========================================================================
TIP_CLEARANCE_DECK == 20
TIP_CLEARANCE_LABWARE == 5

Max(a, b) == IF a >= b THEN a ELSE b
Min(a, b) == IF a <= b THEN a ELSE b

\* the instruments a caller passes to move_to, named by their mount
Instruments == {"left", "right"}
\* the containers on the deck
Containers == {"plate", "rack"}
\* a location's placeable: a well of a container, or the deck itself
Placeables == Containers \cup {"deck"}
\* the strategy argument; "zigzag" stands for any unknown value
Strategies == {"arc", "direct", "zigzag"}
\* z of the target, in deck coordinates
DestinationZs == {0, 35, 80}
\* values of inst._max_deck_height()
MaxHeights == {30, 70}

\* deck-frame z of the top of a container
placeable_top(c) == IF c = "plate" THEN 10 ELSE 20
\* pose_tracker.max_z: the tallest point below a container
max_z(c) == IF c = "plate" THEN 10 ELSE 20
\* x and y of a target
DestinationXY(p) ==
    CASE p = "plate" -> <<1, 1>> [] p = "rack" -> <<2, 2>> [] OTHER -> <<0, 0>>

max_placeable_height_on_deck(c) == placeable_top(c) + max_z(c)

\* the tallest point of the deck: the tallest container on it
max_deck_height ==
    CHOOSE h \in {max_placeable_height_on_deck(c) : c \in Containers} :
        \A c \in Containers : max_placeable_height_on_deck(c) <= h

\* _create_arc: the container a placeable belongs to, if any
this_container(placeable) ==
    IF placeable \in Containers THEN placeable ELSE "None"

\* _create_arc: which clearance policy applies
SamePolicy(this, prev) == this # "None" /\ prev = this

Policy_SafestFirst(this, prev) ==
    IF use_safest_height THEN "safest"
    ELSE IF SamePolicy(this, prev) THEN "same"
    ELSE "deck"

Policy(this, prev) ==
    IF SamePolicy(this, prev) THEN "same"
    ELSE IF use_safest_height THEN "safest"
    ELSE "deck"

\* _create_arc: the height the policy asks for
PolicyHeight(policy, this, inst) ==
    CASE policy = "same" ->
            max_placeable_height_on_deck(this) + TIP_CLEARANCE_LABWARE
      [] policy = "safest" -> inst_max[inst]
      [] OTHER -> max_deck_height + TIP_CLEARANCE_DECK

\* _create_arc: never below the destination or the instrument, never above
\* what the instrument can reach
Clamp_NoCeiling(arc_top, dest_z, pip_z, top) ==
    Max(Max(arc_top, dest_z), pip_z)

Clamp(arc_top, dest_z, pip_z, top) ==
    Min(Max(Max(arc_top, dest_z), pip_z), top)

\* one thing a move_to call made an instrument do
Event(kind, inst, x, y, z) ==
    [kind |-> kind, inst |-> inst, x |-> x, y |-> y, z |-> z]

ArcLegs_AcrossFirst(inst, arc_top, xy, dest_z) ==
    << Event("move", inst, Some(xy[1]), Some(xy[2]), None),
       Event("move", inst, None, None, Some(arc_top)),
       Event("move", inst, None, None, Some(dest_z)) >>

\* _create_arc's three legs, as instrument._move performs them
ArcLegs(inst, arc_top, xy, dest_z) ==
    << Event("move", inst, None, None, Some(arc_top)),
       Event("move", inst, Some(xy[1]), Some(xy[2]), None),
       Event("move", inst, None, None, Some(dest_z)) >>

\* the record of the last planner call; fresh tells that no arc has been
\* planned since the last home, reset or construction
NoPlan ==
    [op |-> "none", inst |-> "None", placeable |-> "None",
     strategy |-> "None", dest_z |-> 0, pip_z |-> 0, policy |-> "none",
     raw |-> 0, arc_top |-> 0, switched |-> FALSE, came_from |-> "None",
     events |-> <<>>, error |-> "None", fresh |-> TRUE]

\* move_to: the instrument changed since the previous move
Switched(inst) ==
    previous_instrument # "None" /\ previous_instrument # inst

\* move_to: _prev_container once a change of instrument is dealt with
AfterSwitch_Kept(inst) == prev_container

AfterSwitch(inst) == IF Switched(inst) THEN "None" ELSE prev_container

\* Pipette.retract(): the carriage goes back to the top of its travel
retract(z, inst) == [z EXCEPT ![inst] = inst_max[inst]]

\* move_to: the branch a strategy value takes; any value but 'arc' and
\* 'direct' falls to the else branch, which raises
Branch_Lenient(strategy) ==
    IF strategy = "arc" THEN "arc" ELSE "direct"

Branch(strategy) ==
    CASE strategy = "arc" -> "arc"
      [] strategy = "direct" -> "direct"
      [] OTHER -> "raise"

\* Robot.move_to(location, instrument, strategy)
MoveTo(inst, placeable, dest_z, strategy) ==
    LET sw == Switched(inst)
        pc == AfterSwitch(inst)
        z1 == IF sw THEN retract(inst_z, previous_instrument) ELSE inst_z
        pre == IF sw
               THEN << Event("retract", previous_instrument,
                             None, None, None) >>
               ELSE << >>
        this == this_container(placeable)
        policy == Policy(this, pc)
        pip_z == z1[inst]
        raw == PolicyHeight(policy, this, inst)
        arc_top == Clamp(raw, dest_z, pip_z, inst_max[inst])
        xy == DestinationXY(placeable)
        call == [NoPlan EXCEPT !.op = "move_to", !.inst = inst,
                    !.placeable = placeable, !.strategy = strategy,
                    !.dest_z = dest_z, !.pip_z = pip_z, !.switched = sw,
                    !.came_from = prev_container,
                    !.fresh = plan.fresh /\ Branch(strategy) # "arc"]
    IN  /\ previous_instrument' = inst
        /\ last_target' = this
        /\ CASE Branch(strategy) = "arc" ->
                  /\ prev_container' = this
                  /\ inst_z' = [z1 EXCEPT ![inst] = dest_z]
                  /\ plan' = [call EXCEPT !.policy = policy,
                                 !.raw = raw, !.arc_top = arc_top,
                                 !.events = pre \o ArcLegs(inst, arc_top,
                                                           xy, dest_z)]
             [] Branch(strategy) = "direct" ->
                  /\ prev_container' = pc
                  /\ inst_z' = [z1 EXCEPT ![inst] = dest_z]
                  /\ plan' = [call EXCEPT !.events = pre \o
                                 << Event("move", inst, Some(xy[1]),
                                          Some(xy[2]), Some(dest_z)) >>]
             [] OTHER ->
                  /\ prev_container' = pc
                  /\ inst_z' = z1
                  /\ plan' = [call EXCEPT !.events = pre,
                                 !.error = "RuntimeError"]
        /\ UNCHANGED <<use_safest_height, inst_max>>
        /\ UNCHANGED notPlan

\* one call Robot.home makes on a mover
Step(kind, mover_name) == Event(kind, mover_name, None, None, None)

HomeSteps_PlungersFirst ==
    << Step("home", "left plunger"),
       Step("home", "right plunger"),
       Step("home", "gantry"),
       Step("update_pose_from_driver", "left carriage"),
       Step("update_pose_from_driver", "right carriage") >>

\* Robot.home: the calls it makes, each returning before the next is made
HomeSteps ==
    << Step("home", "gantry"),
       Step("home", "left plunger"),
       Step("home", "right plunger"),
       Step("update_pose_from_driver", "left carriage"),
       Step("update_pose_from_driver", "right carriage") >>

Forget_Nothing(remembered) == remembered

\* Robot.home and Robot.reset: self._previous_instrument = None and
\* self._prev_container = None
Forget(remembered) == "None"

\* Robot.home(): both carriages go to the top, the planner forgets the
\* previous instrument and container
Home ==
    /\ previous_instrument' = Forget(previous_instrument)
    /\ prev_container' = Forget(prev_container)
    /\ inst_z' = [i \in Instruments |-> inst_max[i]]
    /\ plan' = [NoPlan EXCEPT !.op = "home", !.events = HomeSteps]
    /\ UNCHANGED <<use_safest_height, inst_max, last_target>>
    /\ UNCHANGED notPlan

\* Robot.reset(): the planner state is as after construction; the movers
\* read their position back from the driver, so no carriage moves. The
\* labware of the run is taken to be loaded again before the next move.
Reset ==
    /\ previous_instrument' = Forget(previous_instrument)
    /\ prev_container' = Forget(prev_container)
    /\ use_safest_height' = FALSE
    /\ plan' = [NoPlan EXCEPT !.op = "reset"]
    /\ UNCHANGED <<inst_z, inst_max, last_target>>
    /\ UNCHANGED notPlan

\* a calibration flow sets robot._use_safest_height
SetSafestHeight(b) ==
    /\ use_safest_height # b
    /\ use_safest_height' = b
    /\ plan' = [NoPlan EXCEPT !.op = "set", !.fresh = plan.fresh]
    /\ UNCHANGED <<previous_instrument, prev_container, inst_z, inst_max,
                   last_target>>
    /\ UNCHANGED notPlan

PlanNext ==
    \/ \E i \in Instruments, p \in Placeables, z \in DestinationZs,
          s \in Strategies : MoveTo(i, p, z, s)
    \/ Home
    \/ Reset
    \/ \E b \in BOOLEAN : SetSafestHeight(b)

\* ========================================================================
\* Stepper driver: a move and its recovery from a limit-switch hit, as the
\* contract tests of tests/opentrons/drivers/test_driver.py pin them down
\* ========================================================================
Axes == {"X", "Y", "Z", "A", "B", "C"}
PlungerAxes_All == {"X", "Y", "Z", "A", "B", "C"}

\* the plunger motors, dwelled after every move because they get hot
PlungerAxes == {"B", "C"}
\* axes that are homed by a single home line
SimpleHomeAxes == {"Z", "A", "B", "C"}
\* the targets of a move: the axes it names
Targets == (SUBSET Axes) \ {{}}

\* GCODES
MOVE == "G0"
HOME == "G28.2"
RESET_FROM_ERROR == "M999"
SET_CURRENT == "M907"
CURRENT_POSITION == "M114.2"

\* a line without a current prefix
NoCurrent == [a \in Axes |-> "-"]

\* one line written to the controller: the current prefix it carries, its
\* gcode and the axes the gcode names
Line(cur, gcode, axes) == [current |-> cur, gcode |-> gcode, axes |-> axes]

\* driver.activate_axes / driver.dwell_axes
activate_axes_Skipped(cur, axes) == cur

activate_axes(cur, axes) ==
    [a \in Axes |-> IF a \in axes THEN "active" ELSE cur[a]]
dwell_axes(cur, axes) ==
    [a \in Axes |-> IF a \in axes THEN "dwelling" ELSE cur[a]]

\* the acknowledgements a move can get: ok, or a hard-limit alarm naming
\* one of the axes that moved
Acks(target) == {"ok"} \cup (target \cap SimpleHomeAxes)

\* the axes re-homed after an alarm
HomeAfterAlarm_All(axis) == SimpleHomeAxes

HomeAfterAlarm(axis) == {axis}

\* what the call gives its caller once its cleanup has run
Surface_Swallowed(raising) == "ok"

Surface(raising) == IF raising THEN "SmoothieError" ELSE "ok"

\* driver.move(target): the moving axes go to active current, the others
\* to dwelling current, and the move line is written
Move(target, ack) ==
    /\ phase = "idle"
    /\ current' = activate_axes(dwell_axes(current, Axes \ target), target)
    /\ cmd_list' = << Line(current', MOVE, target) >>
    /\ moving' = target
    /\ fault' = IF ack = "ok" THEN "None" ELSE ack
    /\ phase' = IF ack = "ok" THEN "finally" ELSE "alarm"
    /\ surfaced' = "none"
    /\ UNCHANGED homed
    /\ UNCHANGED notDrv

\* the acknowledgement reports an alarm: the alarm state is cleared
ResetFromError ==
    /\ phase = "alarm"
    /\ cmd_list' = Append(cmd_list, Line(NoCurrent, RESET_FROM_ERROR, {}))
    /\ phase' = "cleared"
    /\ UNCHANGED <<current, homed, fault, moving, surfaced>>
    /\ UNCHANGED notDrv

\* the axis named by the alarm is homed at its active current
HomeFaulted ==
    /\ phase = "cleared"
    /\ current' = activate_axes(current, HomeAfterAlarm(fault))
    /\ cmd_list' = Append(cmd_list,
                          Line(current', HOME, HomeAfterAlarm(fault)))
    /\ homed' = [a \in Axes |-> homed[a] \/ a \in HomeAfterAlarm(fault)]
    /\ phase' = "homed"
    /\ UNCHANGED <<fault, moving, surfaced>>
    /\ UNCHANGED notDrv

\* the homed axis goes back to dwelling current
DwellAfterHome ==
    /\ phase = "homed"
    /\ current' = dwell_axes(current, HomeAfterAlarm(fault))
    /\ cmd_list' = Append(cmd_list, Line(current', SET_CURRENT, {}))
    /\ phase' = "dwelled"
    /\ UNCHANGED <<homed, fault, moving, surfaced>>
    /\ UNCHANGED notDrv

\* the position of all axes is read back; the error is now on its way up
UpdatePosition ==
    /\ phase = "dwelled"
    /\ cmd_list' = Append(cmd_list, Line(NoCurrent, CURRENT_POSITION, {}))
    /\ phase' = "raising"
    /\ UNCHANGED <<current, homed, fault, moving, surfaced>>
    /\ UNCHANGED notDrv

\* the end of driver.move, reached on success and on error alike: the
\* plunger axes that moved are dwelled; then the call returns or raises
Finally ==
    /\ phase \in {"finally", "raising"}
    /\ IF moving \cap PlungerAxes # {}
       THEN /\ current' = dwell_axes(current, moving \cap PlungerAxes)
            /\ cmd_list' = Append(cmd_list, Line(current', SET_CURRENT, {}))
       ELSE UNCHANGED <<current, cmd_list>>
    /\ surfaced' = Surface(phase = "raising")
    /\ phase' = "idle"
    /\ UNCHANGED <<homed, fault, moving>>
    /\ UNCHANGED notDrv

\* driver.home(axes) for axes homed by a single home line, called while the
\* other axes dwell: the axes are homed at active current and dwelled, and
\* the position is read back
HomeAxes(axes) ==
    /\ phase = "idle"
    /\ \A a \in Axes \ axes : current[a] = "dwelling"
    /\ current' = dwell_axes(current, axes)
    /\ cmd_list' = << Line(activate_axes(current, axes), HOME, axes),
                      Line(current', SET_CURRENT, {}),
                      Line(NoCurrent, CURRENT_POSITION, {}) >>
    /\ homed' = [a \in Axes |-> homed[a] \/ a \in axes]
    /\ moving' = axes
    /\ fault' = "None"
    /\ surfaced' = "ok"
    /\ UNCHANGED phase
    /\ UNCHANGED notDrv

\* the flags driver.update_homed_flags() can read
HomedConfigs ==
    { [a \in Axes |-> TRUE], [a \in Axes |-> a \in {"Y", "A", "C"}] }

DrvNext ==
    \/ \E t \in Targets : \E k \in Acks(t) : Move(t, k)
    \/ ResetFromError
    \/ HomeFaulted
    \/ DwellAfterHome
    \/ UpdatePosition
    \/ Finally
    \/ \E h \in (SUBSET SimpleHomeAxes) \ {{}} : HomeAxes(h)

\* ========================================================================
\* Stepper driver: _send_command and update_position over a transport that
\* may not respond or may answer malformed data (test_driver.py)
\* ========================================================================
\* attempts _send_command makes before giving up
DEFAULT_COMMAND_RETRIES == 3
\* position responses update_position reads before giving up
POSITION_READS == 2

AxisOrder == <<"X", "Y", "Z", "A", "B", "C">>

\* the texts a field of a position response can hold
NumericTexts == {"0.0000", "10", "20"}
FieldTexts == NumericTexts \cup {"MISTAKE", "30A:40"}

\* float(text), defined for the numeric texts
Number(text) ==
    CASE text = "0.0000" -> 0 [] text = "10" -> 10 [] text = "20" -> 20

\* the positions the controller reports
Readings ==
    { [a \in Axes |-> "0.0000"],
      [a \in Axes |-> "10"],
      [a \in Axes |-> IF a = "X" THEN "10" ELSE IF a = "Y" THEN "20"
                      ELSE "0.0000"] }

\* a response line as its fields "axis:text", in the order of AxisOrder
WellFormed(reading) ==
    [i \in 1..6 |-> [axis |-> AxisOrder[i], text |-> reading[AxisOrder[i]]]]

\* the same line with the Y field garbled
Mistaken(reading) ==
    [i \in 1..6 |-> [axis |-> AxisOrder[i],
                     text |-> IF AxisOrder[i] = "Y" THEN "MISTAKE"
                              ELSE reading[AxisOrder[i]]]]

\* the same line with the blank between the Z and A fields lost
Merged(reading) ==
    [i \in 1..5 |->
        IF i < 3 THEN [axis |-> AxisOrder[i], text |-> reading[AxisOrder[i]]]
        ELSE IF i = 3 THEN [axis |-> "Z", text |-> "30A:40"]
        ELSE [axis |-> AxisOrder[i + 1], text |-> reading[AxisOrder[i + 1]]]]

PositionResponses ==
    {WellFormed(r) : r \in Readings} \cup {Mistaken(r) : r \in Readings}
        \cup {Merged(r) : r \in Readings}

\* the field of a response that names an axis
FieldsOf(response, a) ==
    {i \in DOMAIN response : response[i].axis = a}

NoPosition == [a \in Axes |-> -1]

\* _parse_position_response with every unreadable field taken as zero
parse_position_defaulting(response) ==
    [ok |-> TRUE,
     value |-> [a \in Axes |->
                  IF /\ FieldsOf(response, a) # {}
                     /\ \A i \in FieldsOf(response, a) :
                           response[i].text \in NumericTexts
                  THEN Number(response[CHOOSE i \in FieldsOf(response, a) :
                                          TRUE].text)
                  ELSE 0]]

\* _parse_position_response: a number for each of the six axes, or
\* ParseError
parse_position_response(response) ==
    IF \A a \in Axes :
          /\ Cardinality(FieldsOf(response, a)) = 1
          /\ \A i \in FieldsOf(response, a) :
                response[i].text \in NumericTexts
    THEN [ok |-> TRUE,
          value |-> [a \in Axes |->
                       Number(response[CHOOSE i \in FieldsOf(response, a) :
                                          TRUE].text)]]
    ELSE [ok |-> FALSE, value |-> NoPosition]

\* what one write to the transport comes back with
Answers(call) ==
    IF call = "update_position" THEN PositionResponses
    ELSE {<<[axis |-> "-", text |-> "ok"]>>}

NoAnswer == << >>
Returned(call, status, answer) ==
    [call |-> call, status |-> status, answer |-> answer]

\* the attempts are used up
GivesUp_OneMore(attempts) == attempts > DEFAULT_COMMAND_RETRIES

GivesUp(attempts) == attempts >= DEFAULT_COMMAND_RETRIES

\* driver._send_command(command) is called
SendCommand ==
    /\ pending = "none"
    /\ pending' = "send"
    /\ tries' = << >>
    /\ bad_reads' = 0
    /\ returned' = Returned("send", "none", NoAnswer)
    /\ UNCHANGED driver_position
    /\ UNCHANGED notWire

\* driver.update_position() is called
update_position ==
    /\ pending = "none"
    /\ pending' = "update_position"
    /\ tries' = << >>
    /\ bad_reads' = 0
    /\ returned' = Returned("update_position", "none", NoAnswer)
    /\ UNCHANGED driver_position
    /\ UNCHANGED notWire

\* a write for which the transport reports no response
NoResponseWrite ==
    /\ pending # "none"
    /\ tries' = Append(tries, "no response")
    /\ IF GivesUp(Len(tries'))
       THEN /\ pending' = "none"
            /\ returned' = Returned(pending, "SerialNoResponse", NoAnswer)
       ELSE UNCHANGED <<pending, returned>>
    /\ UNCHANGED <<bad_reads, driver_position>>
    /\ UNCHANGED notWire

\* a write of _send_command that is answered
AnsweredWrite(answer) ==
    /\ pending = "send"
    /\ tries' = Append(tries, "answer")
    /\ pending' = "none"
    /\ returned' = Returned(pending, "ok", answer)
    /\ UNCHANGED <<bad_reads, driver_position>>
    /\ UNCHANGED notWire

\* a position query that is answered: the response is parsed and stored,
\* or read once more, or given up
AnsweredRead(response) ==
    /\ pending = "update_position"
    /\ LET parsed == parse_position_response(response)
       IN  IF parsed.ok
           THEN /\ driver_position' = parsed.value
                /\ tries' = Append(tries, "answer")
                /\ pending' = "none"
                /\ returned' = Returned(pending, "ok", NoAnswer)
                /\ UNCHANGED bad_reads
           ELSE /\ bad_reads' = bad_reads + 1
                /\ UNCHANGED driver_position
                /\ IF bad_reads' >= POSITION_READS
                   THEN /\ tries' = Append(tries, "answer")
                        /\ pending' = "none"
                        /\ returned' = Returned(pending, "ParseError", response)
                   ELSE /\ tries' = << >>
                        /\ UNCHANGED <<pending, returned>>
    /\ UNCHANGED notWire

WireNext ==
    \/ SendCommand
    \/ update_position
    \/ NoResponseWrite
    \/ \E a \in Answers("send") : AnsweredWrite(a)
    \/ \E r \in PositionResponses : AnsweredRead(r)

\* ========================================================================
\* Pause and resume: the gate driver.run_flag and a motion command issued
\* on another thread (robot/robot.py, test_driver.py)
\* ========================================================================
\* where the instrument is after robot.home()
homed_coords == <<200, 200, 200>>
\* the targets of the motion command
MoveTargets == {<<100, 0, 0>>, <<0, 0, 0>>, <<50, 0, 0>>}

\* the thread: where it stands, its target, and whether it had to wait
Mover(pc, target, waited) ==
    [pc |-> pc, target |-> target, waited |-> waited]

\* the commands that query the controller and move nothing
StatusQueries == {"M114.2", "M119"}

\* the thread of a status query: where it stands, its command, and
\* whether the gate was closed when it was answered
Query(pc, command, paused) ==
    [pc |-> pc, command |-> command, paused |-> paused]

Gated_All(command) == TRUE

\* the commands that wait for run_flag before they are sent: the motion
\* commands
Gated(command) == command \in {"G0", "G28.2"}

\* a call of pause() or resume(), and whether the driver was simulating
GateCall(op, simulated) == [op |-> op, simulated |-> simulated]

\* driver.pause(): the gate closes, unless the driver is simulating
PauseGate_Open(flag) == flag

PauseGate_Always(flag) == FALSE

PauseGate(flag) == IF simulating THEN flag ELSE FALSE

\* driver.resume(): the gate opens, unless the driver is simulating
ResumeGate(flag) == IF simulating THEN flag ELSE TRUE

\* run_flag.set() wakes the thread that waits for the gate
Wake_Never(m) == m

Wake(m) ==
    IF m.pc = "blocked" THEN Mover("moving", m.target, m.waited) ELSE m

\* Robot.pause()
Pause ==
    /\ run_flag' = PauseGate(run_flag)
    /\ UNCHANGED <<simulating, mover, pose, query>>
    /\ gate_call' = GateCall("pause", simulating)
    /\ UNCHANGED notGate

\* Robot.resume()
Resume ==
    /\ run_flag' = ResumeGate(run_flag)
    /\ mover' = IF run_flag' /\ ~run_flag THEN Wake(mover) ELSE mover
    /\ UNCHANGED <<simulating, pose, query>>
    /\ gate_call' = GateCall("resume", simulating)
    /\ UNCHANGED notGate

\* the test harness switches driver.simulating
SetSimulating(b) ==
    /\ simulating # b
    /\ simulating' = b
    /\ UNCHANGED <<run_flag, mover, pose, query, gate_call>>
    /\ UNCHANGED notGate

\* another thread calls pipette._move(robot.poses, x, y, z)
IssueMove(target) ==
    /\ mover.pc = "idle"
    /\ mover' = Mover("at_gate", target, FALSE)
    /\ UNCHANGED <<run_flag, simulating, pose, query, gate_call>>
    /\ UNCHANGED notGate

\* run_flag.wait(): through if the gate is open, blocked if it is closed
WaitAtGate ==
    /\ mover.pc = "at_gate"
    /\ mover' = IF run_flag THEN Mover("moving", mover.target, FALSE)
                ELSE Mover("blocked", mover.target, TRUE)
    /\ UNCHANGED <<run_flag, simulating, pose, query, gate_call>>
    /\ UNCHANGED notGate

\* the motion is carried out and the tracked position updated
CompleteMove ==
    /\ mover.pc = "moving"
    /\ pose' = mover.target
    /\ mover' = Mover("idle", mover.target, mover.waited)
    /\ UNCHANGED <<run_flag, simulating, query, gate_call>>
    /\ UNCHANGED notGate

\* a thread asks for the position or for the state of the switches
IssueQuery(command) ==
    /\ query.pc # "sending"
    /\ query.pc # "blocked"
    /\ query' = Query("sending", command, FALSE)
    /\ UNCHANGED <<run_flag, simulating, mover, pose, gate_call>>
    /\ UNCHANGED notGate

\* the query is written and answered; it does not wait for run_flag
AnswerQuery ==
    /\ query.pc = "sending"
    /\ query' = IF Gated(query.command) /\ ~run_flag
                THEN Query("blocked", query.command, TRUE)
                ELSE Query("answered", query.command, ~run_flag)
    /\ UNCHANGED <<run_flag, simulating, mover, pose, gate_call>>
    /\ UNCHANGED notGate

GateNext ==
    \/ Pause
    \/ Resume
    \/ \E b \in BOOLEAN : SetSimulating(b)
    \/ \E t \in MoveTargets : IssueMove(t)
    \/ WaitAtGate
    \/ CompleteMove
    \/ \E c \in StatusQueries : IssueQuery(c)
    \/ AnswerQuery

\* ========================================================================
\* Motor currents: active and dwelling settings, the amperage sent to the
\* controller and the saved active settings (test_driver.py)
\* ========================================================================
\* amperages are in hundredths of an ampere
\* the active settings of a configured robot
HIGH_CURRENT ==
    [a \in Axes |->
        CASE a = "X" -> 125 [] a = "Y" -> 150 [] a \in {"Z", "A"} -> 100
          [] OTHER -> 50]
\* the dwelling settings of a configured robot
LOW_CURRENT ==
    [a \in Axes |->
        CASE a \in {"X", "Y"} -> 30 [] a \in {"Z", "A"} -> 10
          [] OTHER -> 5]

\* the axes named by activate_axes and dwell_axes calls
CurrentAxes == {{"X"}, {"A"}, {"X", "C"}}
\* the settings handed to set_active_current
ActiveSettings ==
    { [a \in {"A"} |-> 42], [a \in {"X", "Y", "Z", "A"} |-> 200] }
\* the settings handed to set_dwelling_current
DwellingSettings == { [a \in Axes |-> 0], [a \in {"X"} |-> 30] }
\* how many active settings are saved at once
MaxStack == 2

\* dict.update
Updated(settings, new) ==
    [a \in Axes |-> IF a \in DOMAIN new THEN new[a] ELSE settings[a]]

save_current_Reset(amp, target) ==
    [a \in Axes |-> IF a \in DOMAIN target THEN target[a]
                    ELSE LOW_CURRENT[a]]

\* driver._save_current(target): the amperage of the named axes is
\* replaced, every other axis keeps the amperage it had
save_current(amp, target) ==
    [a \in Axes |-> IF a \in DOMAIN target THEN target[a] ELSE amp[a]]

\* the last call on the currents; for a pop, whether set_active_current
\* was called since the push it undoes and whether it changed a setting
CurCall(op, axes) ==
    [op |-> op, axes |-> axes, had_set |-> FALSE, changed |-> FALSE]
NoCurCall == CurCall("none", {})

\* what push saves: the active settings, and, as history, the settings of
\* that moment and what was called since
Saved(active, dwelling) ==
    [saved |-> active, active_then |-> active, dwelling_then |-> dwelling,
     set_since |-> FALSE, other_since |-> FALSE]

\* history: a call was made while settings are saved
Noted(stack, field) ==
    [i \in DOMAIN stack |-> [stack[i] EXCEPT ![field] = TRUE]]

\* pop_active_current: the settings saved last
Restored(stack) == stack[Len(stack)].saved

\* driver.activate_axes(axes): the named axes that dwell get their active
\* amperage
ActivateAxes(axes) ==
    LET target == [a \in {x \in axes : ~active_axes[x]} |->
                      active_current_settings[a]]
    IN  /\ amperage' = save_current(amperage, target)
        /\ active_axes' = [a \in Axes |-> active_axes[a] \/ a \in axes]
        /\ cur_call' = CurCall("activate_axes", axes)
        /\ UNCHANGED <<active_current_settings, dwelling_current_settings,
                       current_stack>>
        /\ UNCHANGED notCur

\* driver.dwell_axes(axes): the named axes that are active get their
\* dwelling amperage
DwellAxes(axes) ==
    LET target == [a \in {x \in axes : active_axes[x]} |->
                      dwelling_current_settings[a]]
    IN  /\ amperage' = save_current(amperage, target)
        /\ active_axes' = [a \in Axes |-> active_axes[a] /\ a \notin axes]
        /\ cur_call' = CurCall("dwell_axes", axes)
        /\ UNCHANGED <<active_current_settings, dwelling_current_settings,
                       current_stack>>
        /\ UNCHANGED notCur

\* driver.set_active_current(settings): the settings are updated and the
\* named axes that are active get the new amperage
set_active_current(settings) ==
    LET target == [a \in {x \in DOMAIN settings : active_axes[x]} |->
                      settings[a]]
    IN  /\ active_current_settings' =
              Updated(active_current_settings, settings)
        /\ amperage' = save_current(amperage, target)
        /\ current_stack' = Noted(current_stack, "set_since")
        /\ cur_call' = CurCall("set_active_current", DOMAIN settings)
        /\ UNCHANGED <<dwelling_current_settings, active_axes>>
        /\ UNCHANGED notCur

\* driver.set_dwelling_current(settings): the settings are updated and the
\* named axes that dwell get the new amperage
set_dwelling_current(settings) ==
    LET target == [a \in {x \in DOMAIN settings : ~active_axes[x]} |->
                      settings[a]]
    IN  /\ dwelling_current_settings' =
              Updated(dwelling_current_settings, settings)
        /\ amperage' = save_current(amperage, target)
        /\ current_stack' = Noted(current_stack, "other_since")
        /\ cur_call' = CurCall("set_dwelling_current", DOMAIN settings)
        /\ UNCHANGED <<active_current_settings, active_axes>>
        /\ UNCHANGED notCur

\* driver.push_active_current(): the active settings are saved
push_active_current ==
    /\ Len(current_stack) < MaxStack
    /\ current_stack' =
          Append(current_stack,
                 Saved(active_current_settings, dwelling_current_settings))
    /\ cur_call' = CurCall("push_active_current", {})
    /\ UNCHANGED <<active_current_settings, dwelling_current_settings,
                   active_axes, amperage>>
    /\ UNCHANGED notCur

pop_active_current_Forgetful ==
    /\ current_stack # << >>
    /\ current_stack' = SubSeq(current_stack, 1, Len(current_stack) - 1)
    /\ cur_call' =
          [CurCall("pop_active_current", {}) EXCEPT
              !.had_set = current_stack[Len(current_stack)].set_since]
    /\ UNCHANGED <<active_current_settings, dwelling_current_settings,
                   active_axes, amperage>>
    /\ UNCHANGED notCur

\* driver.pop_active_current(): the settings saved last become the active
\* settings again, as by set_active_current
pop_active_current ==
    /\ current_stack # << >>
    /\ LET back == Restored(current_stack)
           target == [a \in {x \in Axes : active_axes[x]} |-> back[a]]
       IN  /\ active_current_settings' = back
           /\ amperage' = save_current(amperage, target)
    /\ current_stack' = SubSeq(current_stack, 1, Len(current_stack) - 1)
    /\ cur_call' =
          [CurCall("pop_active_current", {}) EXCEPT
              !.had_set = current_stack[Len(current_stack)].set_since,
              !.changed = active_current_settings' #
                              active_current_settings]
    /\ UNCHANGED <<dwelling_current_settings, active_axes>>
    /\ UNCHANGED notCur

CurNext ==
    \/ \E s \in CurrentAxes : ActivateAxes(s)
    \/ \E s \in CurrentAxes : DwellAxes(s)
    \/ \E s \in ActiveSettings : set_active_current(s)
    \/ \E s \in DwellingSettings : set_dwelling_current(s)
    \/ push_active_current
    \/ pop_active_current

\* ========================================================================
\* Driver position: what move and home leave in driver.position
\* (test_driver.py, test_functional and test_fast_home)
\* ========================================================================
\* driver.homed_position
homed_position ==
    [a \in Axes |->
        CASE a = "X" -> 418 [] a = "Y" -> 353 [] a \in {"Z", "A"} -> 218
          [] OTHER -> 19]

\* the coordinate test_functional first sends each axis to
FirstCoordinate(a) ==
    CASE a = "X" -> 0 [] a = "Y" -> 1 [] a = "Z" -> 2 [] a = "A" -> 3
      [] a = "B" -> 4 [] OTHER -> 5

\* the axes named by the targets of move, and by home
MovedAxes == {Axes, {"X", "Z", "C"}, {"Y"}}
HomedAxes == {Axes, {"A", "B", "C"}, {"X"}}

\* the targets of move: the named axes at their first coordinate or up to
\* PosRange above it
PosRange == 1
PosTargets ==
    { [a \in s |-> FirstCoordinate(a) + v] : s \in MovedAxes, v \in 0..PosRange }

\* fast_home(axis, safety_margin)
SafetyMargins == {12}

\* driver.move(target) on the position
driver_move(p, target) ==
    [a \in Axes |-> IF a \in DOMAIN target THEN target[a] ELSE p[a]]

\* driver.home(axis) on the position
driver_home_All(p, axes) == homed_position

driver_home(p, axes) ==
    [a \in Axes |-> IF a \in axes THEN homed_position[a] ELSE p[a]]

\* smoothie.move(target)
PosMove(target) ==
    /\ driver_position' = driver_move(driver_position, target)
    /\ returned' = Returned("move", "ok", target)
    /\ UNCHANGED <<pending, tries, bad_reads>>
    /\ UNCHANGED notWire

\* smoothie.home(axis)
PosHome(axes) ==
    /\ driver_position' = driver_home(driver_position, axes)
    /\ returned' = Returned("home", "ok", [a \in axes |-> homed_position[a]])
    /\ UNCHANGED <<pending, tries, bad_reads>>
    /\ UNCHANGED notWire

\* driver.fast_home(axis, safety_margin): a move to the margin before the
\* homed position, then the home of the axis
fast_home(axis, safety_margin) ==
    LET target == [a \in {axis} |-> homed_position[a] - safety_margin]
    IN  /\ driver_position' =
               driver_home(driver_move(driver_position, target), {axis})
        /\ returned' = Returned("fast_home", "ok", target)
        /\ UNCHANGED <<pending, tries, bad_reads>>
        /\ UNCHANGED notWire

PosNext ==
    \/ \E t \in PosTargets : PosMove(t)
    \/ \E h \in HomedAxes : PosHome(h)
    \/ \E m \in SafetyMargins : fast_home("X", m)

\* ========================================================================
\* The deck in the pose tree and the memoized Robot.max_deck_height
\* (robot/robot.py)
\* ========================================================================
\* the slots followed: a free one and the one of the fixed trash
DeckSlots == {"1", "12"}
\* the labware and the modules a protocol loads
ContainerNames == {"96-flat"}
ModuleNames == {"tempdeck"}

\* _setup_container: the z of a container, inferred from its height
container_z(name) == IF name = "fixed-trash" THEN 40 ELSE 15

\* _setup_module: the z database.load_module gives
module_z(name) == 80

\* what calibrate_container_with_instrument can find for delta_z
CalibrationDeltas == {-10, 30}

\* a frame below a slot: its object, its deck-frame z, and whether it has
\* been calibrated (each container is calibrated once at most)
Frame(name, z, calibrated) ==
    [name |-> name, z |-> z, calibrated |-> calibrated]

\* the deck and its cache, as the calls hand them on
Deck(poses, cache, raised) ==
    [poses |-> poses, cache |-> cache, raised |-> raised]

\* pose_tracker.max_z(self.poses, self._deck): the slots are at z 0
deck_max_z(poses) ==
    LET zs == {0} \cup { f.z : f \in UNION { poses[s] : s \in DeckSlots } }
    IN  CHOOSE h \in zs : \A z \in zs : z <= h

\* pose_tracker.has_children(self.poses, location)
has_children(poses, slot) == poses[slot] # {}

\* Robot.add_container: the placement is refused when the slot is taken
\* and not shared; otherwise the container goes into the pose tree and the
\* cache is cleared
add_container(poses, cache, name, slot, share) ==
    IF has_children(poses, slot) /\ ~share
    THEN Deck(poses, cache, TRUE)
    ELSE Deck([poses EXCEPT ![slot] =
                   @ \cup {Frame(name, container_z(name), FALSE)}],
              None, FALSE)

\* Robot.add_module: the module goes into the pose tree
add_module(poses, cache, module, slot) ==
    Deck([poses EXCEPT ![slot] = @ \cup {Frame(module, module_z(module), FALSE)}],
         cache, FALSE)

\* Robot.calibrate_container_with_instrument: the container is moved by the
\* delta and the cache is cleared
calibrate_container_with_instrument(poses, cache, slot, container, delta_z) ==
    Deck([poses EXCEPT ![slot] =
              (@ \ {container})
                  \cup {Frame(container.name, container.z + delta_z, TRUE)}],
         None, FALSE)

\* Robot.setup_deck on the empty pose tree: the slots and the fixed trash
setup_deck ==
    add_container([s \in DeckSlots |-> {}], None, "fixed-trash", "12", FALSE).poses

\* a call on the deck: its name, what it returned, whether it raised
DeckCall(op, value, raised) == [op |-> op, value |-> value, raised |-> raised]
NoDeckCall == DeckCall("none", None, FALSE)

\* Robot.reset(): a new pose tree and a new deck, set up with the trash
DeckReset ==
    LET made == add_container([s \in DeckSlots |-> {}], height_cache,
                              "fixed-trash", "12", FALSE)
    IN  /\ deck_poses' = made.poses
        /\ height_cache' = made.cache
        /\ deck_call' = DeckCall("reset", None, FALSE)
        /\ UNCHANGED notDeck

AddContainer(name, slot, share) ==
    LET made == add_container(deck_poses, height_cache, name, slot, share)
    IN  /\ deck_poses' = made.poses
        /\ height_cache' = made.cache
        /\ deck_call' = DeckCall("add_container", None, made.raised)
        /\ UNCHANGED notDeck

AddModule(module, slot) ==
    LET made == add_module(deck_poses, height_cache, module, slot)
    IN  /\ deck_poses' = made.poses
        /\ height_cache' = made.cache
        /\ deck_call' = DeckCall("add_module", None, FALSE)
        /\ UNCHANGED notDeck

CalibrateContainer(slot, delta_z) ==
    \E container \in deck_poses[slot] :
        /\ container.name \notin ModuleNames
        /\ ~container.calibrated
        /\ LET made == calibrate_container_with_instrument(
                           deck_poses, height_cache, slot, container, delta_z)
           IN  /\ deck_poses' = made.poses
               /\ height_cache' = made.cache
        /\ deck_call' = DeckCall("calibrate_container_with_instrument", None, FALSE)
        /\ UNCHANGED notDeck

\* Robot.max_deck_height() under lru_cache: computed when nothing is held,
\* else what is held
MaxDeckHeight ==
    /\ height_cache' = IF IsNone(height_cache)
                       THEN Some(deck_max_z(deck_poses)) ELSE height_cache
    /\ deck_call' = DeckCall("max_deck_height", height_cache', FALSE)
    /\ UNCHANGED deck_poses
    /\ UNCHANGED notDeck

DeckNext ==
    \/ DeckReset
    \/ \E n \in ContainerNames, s \in DeckSlots, sh \in BOOLEAN :
          AddContainer(n, s, sh)
    \/ \E m \in ModuleNames, s \in DeckSlots : AddModule(m, s)
    \/ \E s \in DeckSlots, d \in CalibrationDeltas : CalibrateContainer(s, d)
    \/ MaxDeckHeight

\* ========================================================================
\* Specifications
\* ========================================================================
\* the calibration server at import; the planner as Robot.reset() leaves
\* it and the driver as robot.home() leaves it
CalInit ==
    /\ session = NoSession
    /\ nextId = 1
    /\ attached \in AttachedConfigs
    /\ instruments = {}
    /\ pos = RestPosition
    /\ gantry = PriorCalibration
    /\ req = NoReq
    /\ resp = NoResponse
    /\ replaced = {}
    /\ previous_instrument = "None"
    /\ prev_container = "None"
    /\ use_safest_height = FALSE
    /\ inst_max = [i \in Instruments |-> 70]
    /\ inst_z = inst_max
    /\ plan = NoPlan
    /\ last_target = "NoCall"
    /\ current = [a \in Axes |-> "dwelling"]
    /\ homed = [a \in Axes |-> TRUE]
    /\ cmd_list = << >>
    /\ phase = "idle"
    /\ fault = "None"
    /\ moving = {}
    /\ surfaced = "none"
    /\ pending = "none"
    /\ tries = << >>
    /\ bad_reads = 0
    /\ driver_position = [a \in Axes |-> 0]
    /\ returned = Returned("none", "none", NoAnswer)
    /\ run_flag = TRUE
    /\ simulating = TRUE
    /\ mover = Mover("idle", homed_coords, FALSE)
    /\ pose = homed_coords
    /\ query = Query("idle", "none", FALSE)
    /\ gate_call = GateCall("none", FALSE)
    /\ active_current_settings = HIGH_CURRENT
    /\ dwelling_current_settings = LOW_CURRENT
    /\ active_axes = [a \in Axes |-> FALSE]
    /\ amperage = LOW_CURRENT
    /\ current_stack = << >>
    /\ cur_call = NoCurCall
    /\ deck_poses = setup_deck
    /\ height_cache = None
    /\ deck_call = NoDeckCall

CalNext ==
    \/ \E r \in StartReqs \cup DispatchReqs : Receive(r)
    \/ Handle
    \/ \E m \in Mounts : AddInstrument(m)

SpecCal == CalInit /\ [][CalNext]_vars

\* the planner as Robot.reset() leaves it, for each reach of the
\* instruments; no calibration session, the driver between calls
PlanInit ==
    /\ session = NoSession
    /\ nextId = 1
    /\ attached = [left |-> Uncommissioned, right |-> SingleModel]
    /\ instruments = {}
    /\ pos = RestPosition
    /\ gantry = PriorCalibration
    /\ req = NoReq
    /\ resp = NoResponse
    /\ replaced = {}
    /\ previous_instrument = "None"
    /\ prev_container = "None"
    /\ use_safest_height = FALSE
    /\ inst_max \in [Instruments -> MaxHeights]
    /\ inst_z = inst_max
    /\ plan = NoPlan
    /\ last_target = "NoCall"
    /\ current = [a \in Axes |-> "dwelling"]
    /\ homed = [a \in Axes |-> TRUE]
    /\ cmd_list = << >>
    /\ phase = "idle"
    /\ fault = "None"
    /\ moving = {}
    /\ surfaced = "none"
    /\ pending = "none"
    /\ tries = << >>
    /\ bad_reads = 0
    /\ driver_position = [a \in Axes |-> 0]
    /\ returned = Returned("none", "none", NoAnswer)
    /\ run_flag = TRUE
    /\ simulating = TRUE
    /\ mover = Mover("idle", homed_coords, FALSE)
    /\ pose = homed_coords
    /\ query = Query("idle", "none", FALSE)
    /\ gate_call = GateCall("none", FALSE)
    /\ active_current_settings = HIGH_CURRENT
    /\ dwelling_current_settings = LOW_CURRENT
    /\ active_axes = [a \in Axes |-> FALSE]
    /\ amperage = LOW_CURRENT
    /\ current_stack = << >>
    /\ cur_call = NoCurCall
    /\ deck_poses = setup_deck
    /\ height_cache = None
    /\ deck_call = NoDeckCall

SpecPlan == PlanInit /\ [][PlanNext]_vars

\* the driver between calls with the homed flags it can read; no
\* calibration session, the planner as Robot.reset() leaves it
DrvInit ==
    /\ session = NoSession
    /\ nextId = 1
    /\ attached = [left |-> Uncommissioned, right |-> SingleModel]
    /\ instruments = {}
    /\ pos = RestPosition
    /\ gantry = PriorCalibration
    /\ req = NoReq
    /\ resp = NoResponse
    /\ replaced = {}
    /\ previous_instrument = "None"
    /\ prev_container = "None"
    /\ use_safest_height = FALSE
    /\ inst_max = [i \in Instruments |-> 70]
    /\ inst_z = inst_max
    /\ plan = NoPlan
    /\ last_target = "NoCall"
    /\ current = [a \in Axes |-> "dwelling"]
    /\ homed \in HomedConfigs
    /\ cmd_list = << >>
    /\ phase = "idle"
    /\ fault = "None"
    /\ moving = {}
    /\ surfaced = "none"
    /\ pending = "none"
    /\ tries = << >>
    /\ bad_reads = 0
    /\ driver_position = [a \in Axes |-> 0]
    /\ returned = Returned("none", "none", NoAnswer)
    /\ run_flag = TRUE
    /\ simulating = TRUE
    /\ mover = Mover("idle", homed_coords, FALSE)
    /\ pose = homed_coords
    /\ query = Query("idle", "none", FALSE)
    /\ gate_call = GateCall("none", FALSE)
    /\ active_current_settings = HIGH_CURRENT
    /\ dwelling_current_settings = LOW_CURRENT
    /\ active_axes = [a \in Axes |-> FALSE]
    /\ amperage = LOW_CURRENT
    /\ current_stack = << >>
    /\ cur_call = NoCurCall
    /\ deck_poses = setup_deck
    /\ height_cache = None
    /\ deck_call = NoDeckCall

SpecDrv == DrvInit /\ [][DrvNext]_vars

\* the driver on the wire, with the position it holds after homing or
\* after an earlier move; everything else at rest
WireInit ==
    /\ session = NoSession
    /\ nextId = 1
    /\ attached = [left |-> Uncommissioned, right |-> SingleModel]
    /\ instruments = {}
    /\ pos = RestPosition
    /\ gantry = PriorCalibration
    /\ req = NoReq
    /\ resp = NoResponse
    /\ replaced = {}
    /\ previous_instrument = "None"
    /\ prev_container = "None"
    /\ use_safest_height = FALSE
    /\ inst_max = [i \in Instruments |-> 70]
    /\ inst_z = inst_max
    /\ plan = NoPlan
    /\ last_target = "NoCall"
    /\ current = [a \in Axes |-> "dwelling"]
    /\ homed = [a \in Axes |-> TRUE]
    /\ cmd_list = << >>
    /\ phase = "idle"
    /\ fault = "None"
    /\ moving = {}
    /\ surfaced = "none"
    /\ pending = "none"
    /\ tries = << >>
    /\ bad_reads = 0
    /\ driver_position \in {[a \in Axes |-> 0], [a \in Axes |-> 20]}
    /\ returned = Returned("none", "none", NoAnswer)
    /\ run_flag = TRUE
    /\ simulating = TRUE
    /\ mover = Mover("idle", homed_coords, FALSE)
    /\ pose = homed_coords
    /\ query = Query("idle", "none", FALSE)
    /\ gate_call = GateCall("none", FALSE)
    /\ active_current_settings = HIGH_CURRENT
    /\ dwelling_current_settings = LOW_CURRENT
    /\ active_axes = [a \in Axes |-> FALSE]
    /\ amperage = LOW_CURRENT
    /\ current_stack = << >>
    /\ cur_call = NoCurCall
    /\ deck_poses = setup_deck
    /\ height_cache = None
    /\ deck_call = NoDeckCall

SpecWire == WireInit /\ [][WireNext]_vars

\* the gate open, the driver simulating or not; everything else at rest
GateInit ==
    /\ session = NoSession
    /\ nextId = 1
    /\ attached = [left |-> Uncommissioned, right |-> SingleModel]
    /\ instruments = {}
    /\ pos = RestPosition
    /\ gantry = PriorCalibration
    /\ req = NoReq
    /\ resp = NoResponse
    /\ replaced = {}
    /\ previous_instrument = "None"
    /\ prev_container = "None"
    /\ use_safest_height = FALSE
    /\ inst_max = [i \in Instruments |-> 70]
    /\ inst_z = inst_max
    /\ plan = NoPlan
    /\ last_target = "NoCall"
    /\ current = [a \in Axes |-> "dwelling"]
    /\ homed = [a \in Axes |-> TRUE]
    /\ cmd_list = << >>
    /\ phase = "idle"
    /\ fault = "None"
    /\ moving = {}
    /\ surfaced = "none"
    /\ pending = "none"
    /\ tries = << >>
    /\ bad_reads = 0
    /\ driver_position = [a \in Axes |-> 0]
    /\ returned = Returned("none", "none", NoAnswer)
    /\ run_flag = TRUE
    /\ simulating \in BOOLEAN
    /\ mover = Mover("idle", homed_coords, FALSE)
    /\ pose = homed_coords
    /\ query = Query("idle", "none", FALSE)
    /\ gate_call = GateCall("none", FALSE)
    /\ active_current_settings = HIGH_CURRENT
    /\ dwelling_current_settings = LOW_CURRENT
    /\ active_axes = [a \in Axes |-> FALSE]
    /\ amperage = LOW_CURRENT
    /\ current_stack = << >>
    /\ cur_call = NoCurCall
    /\ deck_poses = setup_deck
    /\ height_cache = None
    /\ deck_call = NoDeckCall

SpecGate == GateInit /\ [][GateNext]_vars

\* the thread of the motion command is scheduled again whenever it can run
SpecGateLive ==
    GateInit /\ [][GateNext]_vars /\ WF_vars(WaitAtGate)
        /\ WF_vars(CompleteMove) /\ WF_vars(AnswerQuery)

\* the currents of a configured robot with every axis dwelling and nothing
\* saved; everything else at rest
CurInit ==
    /\ session = NoSession
    /\ nextId = 1
    /\ attached = [left |-> Uncommissioned, right |-> SingleModel]
    /\ instruments = {}
    /\ pos = RestPosition
    /\ gantry = PriorCalibration
    /\ req = NoReq
    /\ resp = NoResponse
    /\ replaced = {}
    /\ previous_instrument = "None"
    /\ prev_container = "None"
    /\ use_safest_height = FALSE
    /\ inst_max = [i \in Instruments |-> 70]
    /\ inst_z = inst_max
    /\ plan = NoPlan
    /\ last_target = "NoCall"
    /\ current = [a \in Axes |-> "dwelling"]
    /\ homed = [a \in Axes |-> TRUE]
    /\ cmd_list = << >>
    /\ phase = "idle"
    /\ fault = "None"
    /\ moving = {}
    /\ surfaced = "none"
    /\ pending = "none"
    /\ tries = << >>
    /\ bad_reads = 0
    /\ driver_position = [a \in Axes |-> 0]
    /\ returned = Returned("none", "none", NoAnswer)
    /\ run_flag = TRUE
    /\ simulating = TRUE
    /\ mover = Mover("idle", homed_coords, FALSE)
    /\ pose = homed_coords
    /\ query = Query("idle", "none", FALSE)
    /\ gate_call = GateCall("none", FALSE)
    /\ active_current_settings = HIGH_CURRENT
    /\ dwelling_current_settings = LOW_CURRENT
    /\ active_axes = [a \in Axes |-> FALSE]
    /\ amperage = LOW_CURRENT
    /\ current_stack = << >>
    /\ cur_call = NoCurCall
    /\ deck_poses = setup_deck
    /\ height_cache = None
    /\ deck_call = NoDeckCall

SpecCur == CurInit /\ [][CurNext]_vars

\* how far from its expected place a point is recorded
SolveRange == 1
\* the Z values recorded
RecordedZs == {-5, 0, -41}

\* a calibration session in which the three points and the Z value have
\* been recorded and save transform has just been received; each point was
\* recorded within SolveRange of where the drawings put it
SolveInit ==
    /\ \E dx, dy \in [PointIds -> (0 - SolveRange)..SolveRange] :
          \E z \in RecordedZs :
             session = [SessionManager(1) EXCEPT
                 !.current_mount = "A", !.current_model = SingleModel,
                 !.pipettes = {"right"}, !.tip_length = Some(51),
                 !.points = [k \in PointIds |->
                     Some(<<expected_points[k][1] + dx[k],
                            expected_points[k][2] + dy[k]>>)],
                 !.z_value = Some(z)]
    /\ nextId = 2
    /\ attached = [left |-> Uncommissioned, right |-> SingleModel]
    /\ instruments = {"right"}
    /\ pos = RestPosition
    /\ gantry = PriorCalibration
    /\ req = [NoReq EXCEPT !.op = "dispatch", !.token = Some(1),
                           !.command = "save transform"]
    /\ resp = NoResponse
    /\ replaced = {}
    /\ previous_instrument = "None"
    /\ prev_container = "None"
    /\ use_safest_height = FALSE
    /\ inst_max = [i \in Instruments |-> 70]
    /\ inst_z = inst_max
    /\ plan = NoPlan
    /\ last_target = "NoCall"
    /\ current = [a \in Axes |-> "dwelling"]
    /\ homed = [a \in Axes |-> TRUE]
    /\ cmd_list = << >>
    /\ phase = "idle"
    /\ fault = "None"
    /\ moving = {}
    /\ surfaced = "none"
    /\ pending = "none"
    /\ tries = << >>
    /\ bad_reads = 0
    /\ driver_position = [a \in Axes |-> 0]
    /\ returned = Returned("none", "none", NoAnswer)
    /\ run_flag = TRUE
    /\ simulating = TRUE
    /\ mover = Mover("idle", homed_coords, FALSE)
    /\ pose = homed_coords
    /\ query = Query("idle", "none", FALSE)
    /\ gate_call = GateCall("none", FALSE)
    /\ active_current_settings = HIGH_CURRENT
    /\ dwelling_current_settings = LOW_CURRENT
    /\ active_axes = [a \in Axes |-> FALSE]
    /\ amperage = LOW_CURRENT
    /\ current_stack = << >>
    /\ cur_call = NoCurCall
    /\ deck_poses = setup_deck
    /\ height_cache = None
    /\ deck_call = NoDeckCall

SolveNext == Handle

SpecSolve == SolveInit /\ [][SolveNext]_vars

\* the calibration server at import, with any pipettes on the mounts
MountsInit ==
    /\ session = NoSession
    /\ nextId = 1
    /\ attached \in AllAttached
    /\ instruments = {}
    /\ pos = RestPosition
    /\ gantry = PriorCalibration
    /\ req = NoReq
    /\ resp = NoResponse
    /\ replaced = {}
    /\ previous_instrument = "None"
    /\ prev_container = "None"
    /\ use_safest_height = FALSE
    /\ inst_max = [i \in Instruments |-> 70]
    /\ inst_z = inst_max
    /\ plan = NoPlan
    /\ last_target = "NoCall"
    /\ current = [a \in Axes |-> "dwelling"]
    /\ homed = [a \in Axes |-> TRUE]
    /\ cmd_list = << >>
    /\ phase = "idle"
    /\ fault = "None"
    /\ moving = {}
    /\ surfaced = "none"
    /\ pending = "none"
    /\ tries = << >>
    /\ bad_reads = 0
    /\ driver_position = [a \in Axes |-> 0]
    /\ returned = Returned("none", "none", NoAnswer)
    /\ run_flag = TRUE
    /\ simulating = TRUE
    /\ mover = Mover("idle", homed_coords, FALSE)
    /\ pose = homed_coords
    /\ query = Query("idle", "none", FALSE)
    /\ gate_call = GateCall("none", FALSE)
    /\ active_current_settings = HIGH_CURRENT
    /\ dwelling_current_settings = LOW_CURRENT
    /\ active_axes = [a \in Axes |-> FALSE]
    /\ amperage = LOW_CURRENT
    /\ current_stack = << >>
    /\ cur_call = NoCurCall
    /\ deck_poses = setup_deck
    /\ height_cache = None
    /\ deck_call = NoDeckCall

MountsNext ==
    \/ \E r \in StartReqs \cup MountReqs : Receive(r)
    \/ Handle
    \/ \E m \in Mounts : AddInstrument(m)
    \/ \E a \in AllAttached : Reattach(a)

SpecMounts == MountsInit /\ [][MountsNext]_vars

TipNext ==
    \/ \E r \in StartReqs \cup TipReqs : Receive(r)
    \/ Handle

SpecTip == CalInit /\ [][TipNext]_vars

\* the driver as the test fixture hands it over: every axis at 0
PosInit ==
    /\ session = NoSession
    /\ nextId = 1
    /\ attached = [left |-> Uncommissioned, right |-> SingleModel]
    /\ instruments = {}
    /\ pos = RestPosition
    /\ gantry = PriorCalibration
    /\ req = NoReq
    /\ resp = NoResponse
    /\ replaced = {}
    /\ previous_instrument = "None"
    /\ prev_container = "None"
    /\ use_safest_height = FALSE
    /\ inst_max = [i \in Instruments |-> 70]
    /\ inst_z = inst_max
    /\ plan = NoPlan
    /\ last_target = "NoCall"
    /\ current = [a \in Axes |-> "dwelling"]
    /\ homed = [a \in Axes |-> TRUE]
    /\ cmd_list = << >>
    /\ phase = "idle"
    /\ fault = "None"
    /\ moving = {}
    /\ surfaced = "none"
    /\ pending = "none"
    /\ tries = << >>
    /\ bad_reads = 0
    /\ driver_position = [a \in Axes |-> 0]
    /\ returned = Returned("none", "none", NoAnswer)
    /\ run_flag = TRUE
    /\ simulating = TRUE
    /\ mover = Mover("idle", homed_coords, FALSE)
    /\ pose = homed_coords
    /\ query = Query("idle", "none", FALSE)
    /\ gate_call = GateCall("none", FALSE)
    /\ active_current_settings = HIGH_CURRENT
    /\ dwelling_current_settings = LOW_CURRENT
    /\ active_axes = [a \in Axes |-> FALSE]
    /\ amperage = LOW_CURRENT
    /\ current_stack = << >>
    /\ cur_call = NoCurCall
    /\ deck_poses = setup_deck
    /\ height_cache = None
    /\ deck_call = NoDeckCall

SpecPos == PosInit /\ [][PosNext]_vars

\* the deck as Robot.__init__ leaves it: reset() has set it up
DeckInit ==
    /\ session = NoSession
    /\ nextId = 1
    /\ attached = [left |-> Uncommissioned, right |-> SingleModel]
    /\ instruments = {}
    /\ pos = RestPosition
    /\ gantry = PriorCalibration
    /\ req = NoReq
    /\ resp = NoResponse
    /\ replaced = {}
    /\ previous_instrument = "None"
    /\ prev_container = "None"
    /\ use_safest_height = FALSE
    /\ inst_max = [i \in Instruments |-> 70]
    /\ inst_z = inst_max
    /\ plan = NoPlan
    /\ last_target = "NoCall"
    /\ current = [a \in Axes |-> "dwelling"]
    /\ homed = [a \in Axes |-> TRUE]
    /\ cmd_list = << >>
    /\ phase = "idle"
    /\ fault = "None"
    /\ moving = {}
    /\ surfaced = "none"
    /\ pending = "none"
    /\ tries = << >>
    /\ bad_reads = 0
    /\ driver_position = [a \in Axes |-> 0]
    /\ returned = Returned("none", "none", NoAnswer)
    /\ run_flag = TRUE
    /\ simulating = TRUE
    /\ mover = Mover("idle", homed_coords, FALSE)
    /\ pose = homed_coords
    /\ query = Query("idle", "none", FALSE)
    /\ gate_call = GateCall("none", FALSE)
    /\ active_current_settings = HIGH_CURRENT
    /\ dwelling_current_settings = LOW_CURRENT
    /\ active_axes = [a \in Axes |-> FALSE]
    /\ amperage = LOW_CURRENT
    /\ current_stack = << >>
    /\ cur_call = NoCurCall
    /\ deck_poses = setup_deck
    /\ height_cache = None
    /\ deck_call = NoDeckCall

SpecDeck == DeckInit /\ [][DeckNext]_vars

\* ========================================================================
\* Properties of the calibration session (checked under SpecCal)
\* ========================================================================
\* the request being answered carries the live session's id
Pending(op) == req.op = op
Rejected == /\ resp'.handler = "none"
            /\ ~resp'.motion
            /\ ~resp'.persisted
            /\ UNCHANGED <<session, instruments, pos, gantry, nextId>>
SomethingRecorded ==
    /\ session.live
    /\ ~IsNone(session.tip_length)
    /\ \E k \in PointIds : ~IsNone(session.points[k])

\* C1: a start without the force flag that finds a session live is answered
\* 409, creates no session, and leaves the live session's id, mount, model,
\* points, Z value and tip length as they were.
C1_StartConflict ==
    [][ (Pending("start") /\ ~req.force /\ session.live) =>
            /\ resp'.status = 409
            /\ session' = session
            /\ nextId' = nextId
            /\ UNCHANGED <<instruments, gantry>> ]_vars

C1_Witness == resp.op = "start" /\ resp.status = 409 /\ SomethingRecorded

\* C2 as claimed: while a session is live, every dispatched request whose
\* token is not the session's id is answered 403, no handler runs, nothing moves
\* and nothing changes.
C2_Original ==
    [][ (Pending("dispatch") /\ session.live /\ req.token # Some(session.id)) =>
            (resp'.status = 403 /\ Rejected) ]_vars

\* C2 as amended: such a request is answered 403 when it carries both a token
\* and a command field, and 400 when it lacks either; in every case no handler
\* runs, nothing moves and nothing changes.
C2_TokenMismatch ==
    [][ (Pending("dispatch") /\ session.live /\ req.token # Some(session.id)) =>
            /\ resp'.status = IF IsNone(req.token) \/ req.command = "None"
                              THEN 400 ELSE 403
            /\ Rejected ]_vars

C2_Witness == resp.op = "dispatch" /\ resp.status = 403 /\ SomethingRecorded

\* C3: with no session live, every dispatched request, whatever its token,
\* command and payload, is answered 418; no handler runs, no session appears.
C3_NoSession ==
    [][ (Pending("dispatch") /\ ~session.live) =>
            (resp'.status = 418 /\ Rejected /\ ~session'.live) ]_vars

C3_Witness == resp.op = "dispatch" /\ resp.status = 418 /\ ~session.live /\ nextId > 1

\* the fields a jog request lacks
MissingJogFields(data) ==
    {f \in {"direction", "step"} :
        \/ f = "direction" /\ IsNone(data.direction)
        \/ f = "step" /\ IsNone(data.step)}
    \cup (IF data.axis = "None" THEN {"axis"} ELSE {})

\* C4 as claimed: the checks run in the order session, token match, presence of
\* the command's fields, meaning of the command's fields, and the first that
\* fails is the one reported: a token that does not match is reported as such
\* whatever else the request lacks, and a jog that lacks a field is reported
\* for a field it lacks.
C4_Original ==
    [][ Pending("dispatch") =>
            IF ~session.live THEN resp'.status = 418
            ELSE IF req.token # Some(session.id)
                 THEN resp'.status = 403
            ELSE IF req.command = "jog" /\ MissingJogFields(req.data) # {}
                 THEN resp'.status = 400 /\ resp'.msg \in MissingJogFields(req.data)
            ELSE TRUE ]_vars

\* C4 as amended: the checks run in the order session, presence of the token,
\* presence of the command field (either missing: 400), token match (403),
\* command known (unknown: 500), then the handler's own checks in the order it
\* writes them, for jog: axis is x, y or z; direction is -1 or 1; step is
\* there.  The first check that fails is the one reported, and nothing changes.
C4_ValidationOrder ==
    [][ Pending("dispatch") =>
          LET d == req.data
              Fails(status, msg) ==
                  resp'.status = status /\ resp'.msg = msg /\ ~resp'.motion
                  /\ UNCHANGED <<session, instruments, pos, gantry, nextId>>
          IN  IF ~session.live THEN Fails(418, "session must be started")
              ELSE IF IsNone(req.token) THEN Fails(400, "token required")
              ELSE IF req.command = "None" THEN Fails(400, "command required")
              ELSE IF req.token # Some(session.id) THEN Fails(403, "invalid token")
              ELSE IF req.command \notin RouterKeys THEN Fails(500, "KeyError")
              ELSE IF req.command # "jog" THEN resp'.handler = req.command
              ELSE IF d.axis \notin {"x", "y", "z"} THEN Fails(400, "axis")
              ELSE IF d.direction \notin {Some(1), Some(-1)} THEN Fails(400, "direction")
              ELSE IF IsNone(d.step) THEN Fails(400, "step")
              ELSE resp'.handler = "jog" ]_vars

\* a request with the wrong token and an unknown command was answered 403, and
\* so was a jog with the wrong token
C4_Witness ==
    /\ resp.op = "dispatch" /\ resp.status = 403
    /\ resp.command = "bogus" /\ session.live

MatchingPending(command) ==
    /\ Pending("dispatch") /\ session.live
    /\ req.token = Some(session.id) /\ req.command = command

\* C5: save transform is answered 4xx, leaves the gantry calibration alone and
\* persists nothing whenever one of the three points or the Z value is not
\* recorded; it replaces and persists the calibration when all four are.
C5_SaveTransformNeedsAll ==
    [][ MatchingPending("save transform") =>
          IF (\E k \in PointIds : IsNone(session.points[k])) \/ IsNone(session.z_value)
          THEN resp'.status \in 400..499 /\ gantry' = gantry /\ ~resp'.persisted
          ELSE resp'.status = 200 /\ resp'.persisted
               /\ gantry'.kind = "solved" ]_vars

\* a recognized pipette is attached to some mount
PipetteAttached == \E m \in Mounts : Recognized(m)

\* the request carries the token of a session that a forced start replaced
OldToken == ~IsNone(req.token) /\ Val(req.token) \in replaced

\* a start with force while a session is live, a recognized pipette
\* attached, answers 201 with a session whose token was never handed out
\* before and which holds no point, no Z value and no tip length
Replaces ==
    [][ (Pending("start") /\ req.force /\ session.live /\ PipetteAttached)
          => /\ resp'.status = 201
             /\ session'.live
             /\ session'.id > session.id
             /\ session'.points = NoPoints
             /\ IsNone(session'.z_value)
             /\ IsNone(session'.tip_length) ]_vars

\* C15 as claimed: a forced start replaces the live session by an empty
\* one with a new token, and every later command carrying the token of
\* the replaced session is rejected as a token mismatch.
C15_Original ==
    /\ Replaces
    /\ [][ (Pending("dispatch") /\ OldToken /\ req.command # "None")
              => resp'.status = 403 /\ Rejected ]_vars

\* C15 amended: a forced start replaces the live session by an empty one
\* with a new token; a later command carrying the token of the replaced
\* session is rejected without effect, as a token mismatch while a
\* session is live and as 'no session' once none is.
C15_ForcedStartReplaces ==
    /\ Replaces
    /\ [][ (Pending("dispatch") /\ OldToken /\ req.command # "None")
              => /\ resp'.status = IF session.live THEN 403 ELSE 418
                 /\ Rejected ]_vars

\* a command with the token of the replaced session, rejected while the
\* session that replaced it has recorded something of its own
C15_Witness ==
    /\ resp.op = "dispatch"
    /\ resp.status = 403
    /\ resp.token = Some(1)
    /\ resp.command = "save xy"
    /\ session.live
    /\ session.id = 2
    /\ replaced = {1}
    /\ ~IsNone(session.tip_length)

\* C16: a release with the live token leaves no session; from then on a
\* dispatch, whatever token it carries, is answered 'no session' and
\* leaves no session, and a start without force is not answered as a
\* conflict: with a recognized pipette attached and the mounts free it
\* is answered 201 with a new session.
C16_ReleaseEndsSession ==
    /\ [][ MatchingPending("release")
              => resp'.status = 200 /\ session' = NoSession ]_vars
    /\ [][ (Pending("dispatch") /\ ~session.live)
              => resp'.status = 418 /\ ~session'.live ]_vars
    /\ [][ (Pending("start") /\ ~req.force /\ ~session.live)
              => /\ resp'.status # 409
                 /\ (PipetteAttached /\ instruments = {})
                       => /\ resp'.status = 201
                          /\ session'.live
                          /\ session'.id = nextId ]_vars

\* a second session started without force: the first one was released
C16_Witness ==
    /\ resp.op = "start"
    /\ resp.status = 201
    /\ ~resp.force
    /\ session.live
    /\ session.id = 2

\* C17: save xy with a point name that is not a calibration point id, or
\* with no mount selected, and save z with no tip length recorded, are
\* answered with a 4xx status and record nothing.
C17_SaveNeedsMountAndTip ==
    /\ [][ (MatchingPending("save xy")
              /\ (req.data.point \notin PointIds
                    \/ session.current_mount = "None"))
              => resp'.status \in 400..499 /\ session' = session ]_vars
    /\ [][ (MatchingPending("save z") /\ IsNone(session.tip_length))
              => resp'.status \in 400..499 /\ session' = session ]_vars

\* save xy of a calibration point refused for want of a mount
C17_Witness ==
    /\ resp.op = "dispatch"
    /\ resp.command = "save xy"
    /\ resp.status = 400
    /\ resp.msg = "mount"
    /\ session.live
    /\ session.current_mount = "None"

\* the request carries the live token and some command
Matching == Pending("dispatch") /\ session.live
               /\ req.token = Some(session.id) /\ req.command # "None"

\* C18: with a live session and the matching token, a command that is
\* not in the command set, or whose handler raises, is answered 500 with
\* the cause; every such command is answered, and after a 500 the same
\* session is live.
C18_CatchAll ==
    [][ Matching =>
          /\ resp'.op = "dispatch"
          /\ resp'.status \in {200, 400, 500}
          /\ req.command \notin RouterKeys
                => resp'.status = 500 /\ resp'.msg = "KeyError"
          /\ resp'.status = 500
                => resp'.msg # "" /\ session' = session /\ session'.live
       ]_vars

\* a handler that raised: attach tip with no pipette on the mount
C18_Witness ==
    /\ resp.op = "dispatch"
    /\ resp.status = 500
    /\ resp.handler = "attach tip"
    /\ resp.token = Some(session.id)
    /\ session.live

\* C19: a dispatched command answered with a 4xx status leaves every
\* field of the session as it was and moves nothing.
C19_RejectionChangesNothing ==
    [][ (Pending("dispatch") /\ resp'.status \in 400..499)
          => session' = session /\ ~resp'.motion /\ pos' = pos ]_vars

\* a jog refused for its step, in a session that has recorded something
C19_Witness ==
    /\ resp.op = "dispatch"
    /\ resp.status = 400
    /\ resp.command = "jog"
    /\ resp.msg = "step"
    /\ SomethingRecorded


\* ------------------------------------------------------------------------
\* Properties of the solve of save transform (checked under SpecSolve)
\* ------------------------------------------------------------------------
\* the affine map m, its linear part kept times 10, takes p to q
Takes(m, p, q) ==
    /\ 10 * m.tx + m.a10 * p[1] + m.b10 * p[2] = 10 * q[1]
    /\ 10 * m.ty + m.c10 * p[1] + m.d10 * p[2] = 10 * q[2]

\* the measured points of the example: the expected ones shifted by (1, 1)
ShiftedByOne ==
    [k \in PointIds |->
        Some(<<expected_points[k][1] + 1, expected_points[k][2] + 1>>)]

\* C28: save transform pairs expected point k with the point recorded
\* under id k and solves the 2-D affine map taking expected to measured;
\* for expected points (0,0), (10,0), (0,10) and measured points shifted by
\* (1,1) the map is the identity rotation with translation (1,1), and with
\* a recorded Z of -5 the matrix written as the gantry calibration has z
\* translation -5.
C28_SolvePairsPoints ==
    [][ (req.command = "save transform" /\ resp'.status = 200) =>
            /\ gantry'.kind = "solved"
            /\ \A k \in PointIds :
                  Takes(gantry'.xy, expected_points[k],
                        Val(session.points[k]))
            /\ gantry'.z = session.z_value
            /\ session.points = ShiftedByOne =>
                  gantry'.xy = [tx |-> 1, ty |-> 1, a10 |-> 10, b10 |-> 0,
                                c10 |-> 0, d10 |-> 10]
            /\ session.z_value = Some(-5) => gantry'.z = Some(-5) ]_vars

\* the calibration of the example has been written
C28_Witness ==
    /\ resp.status = 200
    /\ resp.command = "save transform"
    /\ session.points = ShiftedByOne
    /\ session.z_value = Some(-5)
    /\ gantry = add_z([tx |-> 1, ty |-> 1, a10 |-> 10, b10 |-> 0,
                       c10 |-> 0, d10 |-> 10], Some(-5))

\* ------------------------------------------------------------------------
\* C31: a start that hands out no token (pipette not recognized, or an
\* exception raised while the pipette is created) never leaves a session
\* live, so every live session's id is a token a 201 start returned.
\* ------------------------------------------------------------------------
NoTokenHandedOut == Pending("start") /\ resp'.status \in {403, 500}

C31_LiveSessionWasHandedOut ==
    [][NoTokenHandedOut => ~session'.live]_vars

\* ------------------------------------------------------------------------
\* C32: a start that passes the conflict check and finds no recognized
\* pipette is answered 403 and leaves no live session; under force the
\* session that was live is destroyed, and a command carrying its token is
\* afterwards answered 418 ('no session') without running anything.
\* ------------------------------------------------------------------------
FindsNoPipette ==
    Pending("start") /\ MayStart(req.force) /\ ~PipetteAttached

DestroyedToken ==
    /\ Pending("dispatch")
    /\ ~session.live
    /\ OldToken

C32_UnrecognizedStart ==
    [][ /\ FindsNoPipette =>
            /\ resp'.status = 403
            /\ ~session'.live
            /\ session.live => session.id \in replaced'
        /\ DestroyedToken => (resp'.status = 418 /\ Rejected) ]_vars

C32_Witness ==
    /\ resp.op = "start"
    /\ resp.status = 403
    /\ resp.force
    /\ ~session.live
    /\ replaced = {1}
    /\ nextId = 3

\* ------------------------------------------------------------------------
\* C33: within a session save z succeeds exactly when a tip length is
\* recorded, and the recorded tip length is that of the last successful tip
\* command: a successful attach tip records its non-zero tipLength in place
\* of any earlier one, detach tip clears it and leaves the saved Z value,
\* a failed attach tip and every other command leave it as it is, and a new
\* session starts with none.
\* ------------------------------------------------------------------------
InSession ==
    /\ Pending("dispatch")
    /\ session.live
    /\ req.token = Some(session.id)

SameSession == session'.live /\ session'.id = session.id

C33_SaveZFollowsTip ==
    [][ /\ (InSession /\ req.command = "save z") =>
              (resp'.status = 200 <=> ~IsNone(session.tip_length))
        /\ (InSession /\ req.command = "attach tip" /\ resp'.status = 200) =>
              /\ session'.tip_length = req.data.tipLength
              /\ Val(req.data.tipLength) # 0
        /\ (InSession /\ req.command = "attach tip" /\ resp'.status # 200) =>
              session'.tip_length = session.tip_length
        /\ (InSession /\ req.command = "detach tip" /\ resp'.status = 200) =>
              /\ IsNone(session'.tip_length)
              /\ session'.z_value = session.z_value
        /\ (SameSession /\ req.command \notin {"attach tip", "detach tip"}) =>
              session'.tip_length = session.tip_length
        /\ (session'.live /\ ~SameSession) => IsNone(session'.tip_length) ]_vars

\* save z is refused after detach tip while the Z value saved with the
\* longer tip is still recorded
C33_Witness ==
    /\ resp.command = "save z"
    /\ resp.status = 400
    /\ session.live
    /\ IsNone(session.tip_length)
    /\ \E l \in TipLengths :
          session.z_value = Some(RestPosition.z - (l + 1)
                                 + length_offset(session.current_model))

\* ------------------------------------------------------------------------
\* C40: the gantry calibration in memory becomes the default with every
\* start that passes the conflict check, the one answered 403 included; a
\* start answered 409 leaves it as it is, and so does every dispatched
\* command but a save transform answered 200.
\* ------------------------------------------------------------------------
CreatesSession == Pending("start") /\ MayStart(req.force)

C40_GantryResetByStart ==
    [][ /\ CreatesSession => gantry' = DefaultCalibration
        /\ (Pending("start") /\ ~MayStart(req.force)) =>
              (resp'.status = 409 /\ gantry' = gantry)
        /\ (gantry' # gantry) =>
              \/ CreatesSession
              \/ /\ Pending("dispatch")
                 /\ req.command = "save transform"
                 /\ resp'.status = 200 ]_vars

\* a start refused for lack of a pipette has replaced the calibration the
\* robot was loaded with
C40_Witness ==
    /\ resp.op = "start"
    /\ resp.status = 403
    /\ gantry = DefaultCalibration
    /\ gantry # PriorCalibration

\* ------------------------------------------------------------------------
\* C37: a start that creates its pipettes selects the single-channel right
\* pipette, else the single-channel left one, else the right one, else the
\* left one, else none; the session's axis is "A" for right and "Z" for
\* left, and without a choice no session is left to carry one.
\* ------------------------------------------------------------------------
Priority ==
    CASE attached["right"] = SingleModel -> "right"
      [] attached["right"] = MultiModel /\ attached["left"] = SingleModel -> "left"
      [] attached["right"] = MultiModel /\ attached["left"] # SingleModel -> "right"
      [] attached["right"] = Uncommissioned /\ attached["left"] # Uncommissioned -> "left"
      [] OTHER -> "None"

C37_SelectionPriority ==
    [][ (CreatesSession /\ resp'.status \in {201, 403}) =>
          /\ resp'.status = 201 <=> Priority # "None"
          /\ Priority = "right" =>
                /\ session'.current_mount = "A"
                /\ session'.current_model = attached["right"]
                /\ "right" \in session'.pipettes
          /\ Priority = "left" =>
                /\ session'.current_mount = "Z"
                /\ session'.current_model = attached["left"]
                /\ "left" \in session'.pipettes
          /\ Priority = "None" => session'.current_mount = "None" ]_vars

\* the left single-channel pipette is chosen over the right multi-channel one
C37_Witness ==
    /\ resp.op = "start"
    /\ resp.status = 201
    /\ attached["right"] = MultiModel
    /\ attached["left"] = SingleModel
    /\ session.current_mount = "Z"

\* ------------------------------------------------------------------------
\* C38: with a multi-channel pipette move goes to the named point shifted
\* by twice Y_OFFSET_MULTI in y and save xy records the measured y less
\* Y_OFFSET_MULTI; with a single-channel pipette neither is applied; x is
\* not adjusted for the channel count; the mount offset is added to the
\* saved position for the left mount only.
\* ------------------------------------------------------------------------
ChannelShift(times) ==
    IF session.current_model = MultiModel THEN times * Y_OFFSET_MULTI ELSE 0

LeftShift == IF session.current_mount = "Z" THEN mount_offset ELSE <<0, 0, 0>>

C38_MultiChannelOffsets ==
    [][ /\ (InSession /\ req.command = "move" /\ resp'.status = 200) =>
              pos' = [x |-> safe_points(req.data.point)[1],
                      y |-> safe_points(req.data.point)[2] + ChannelShift(2),
                      z |-> safe_points(req.data.point)[3]]
        /\ (InSession /\ req.command = "save xy" /\ resp'.status = 200) =>
              session'.points[req.data.point] =
                  Some(<<pos.x + LeftShift[1],
                         pos.y + LeftShift[2] - ChannelShift(1)>>) ]_vars

\* the right multi-channel pipette was sent to point "2" and the point saved
C38_Witness ==
    /\ resp.command = "save xy"
    /\ resp.status = 200
    /\ session.current_model = MultiModel
    /\ session.current_mount = "A"
    /\ session.points["2"] = Some(<<safe_points("2")[1],
                                    safe_points("2")[2] + Y_OFFSET_MULTI>>)
\* ========================================================================
\* Properties of the arc planner (checked under SpecPlan)
\* ========================================================================
\* the last planner call was an arc move
ArcPlanned == plan.op = "move_to" /\ plan.strategy = "arc"

\* C6 as claimed: the travel height of every arc move is at least
\* max(destination z, current z of the instrument) and at most the
\* instrument's maximum reachable height.
C6_Original ==
    ArcPlanned =>
        /\ plan.arc_top >= Max(plan.dest_z, plan.pip_z)
        /\ plan.arc_top <= inst_max[plan.inst]

\* C6 amended: the travel height of every arc move is at most the
\* instrument's maximum reachable height; it is at least max(destination z,
\* current z) whenever that maximum is itself reachable, and it is exactly
\* the maximum reachable height otherwise.
C6_ArcHeightClamped ==
    ArcPlanned =>
        /\ plan.arc_top <= inst_max[plan.inst]
        /\ IF Max(plan.dest_z, plan.pip_z) <= inst_max[plan.inst]
           THEN plan.arc_top >= Max(plan.dest_z, plan.pip_z)
           ELSE plan.arc_top = inst_max[plan.inst]

\* an arc move under the deck-height policy whose policy height had to be
\* cut down to what the instrument reaches, above its destination
C6_Witness ==
    /\ ArcPlanned
    /\ plan.policy = "deck"
    /\ plan.arc_top = inst_max[plan.inst]
    /\ plan.arc_top < max_deck_height + TIP_CLEARANCE_DECK
    /\ plan.arc_top > Max(plan.dest_z, plan.pip_z)

\* C7: an arc move uses the reduced same-container height only when the
\* move_to call just before it, whatever its strategy, targeted the same
\* container.
C7_SameContainerOnlyAfterSameTarget ==
    [][ (plan'.op = "move_to" /\ plan'.policy = "same")
            => last_target = this_container(plan'.placeable) ]_vars

\* C8: a move_to call with another instrument than the previous move
\* first retracts the previous instrument, before any move of the new
\* one, and forgets the previous container, so that its arc height is not
\* the same-container height.
C8_InstrumentSwitch ==
    [][ (plan'.op = "move_to" /\ Switched(plan'.inst)) =>
            /\ Len(plan'.events) >= 1
            /\ plan'.events[1] =
                  Event("retract", previous_instrument, None, None, None)
            /\ \A i \in 2..Len(plan'.events) :
                  /\ plan'.events[i].kind = "move"
                  /\ plan'.events[i].inst = plan'.inst
            /\ plan'.policy # "same"
            /\ plan'.strategy # "arc" => prev_container' = "None" ]_vars

\* an arc move with the other instrument into the container of the
\* previous move
C8_Witness ==
    /\ ArcPlanned
    /\ plan.switched
    /\ plan.came_from = plan.placeable
    /\ plan.policy = "deck"
    /\ Len(plan.events) = 4

\* C20: before clamping, the height of an arc is the height of the
\* destination's container + 5 if that container is the one the planner
\* tracks as the previous one; else the instrument's maximum reachable
\* height if safest-height mode is on; else the deck's maximum height
\* + 20. The first rule wins over safest-height mode, and a destination
\* with no container never uses it.
C20_PolicyPriority ==
    ArcPlanned =>
        LET this == IF plan.placeable \in Containers
                    THEN plan.placeable ELSE "None"
            tracked == IF plan.switched THEN "None" ELSE plan.came_from
        IN  /\ plan.raw =
                  IF this # "None" /\ tracked = this
                  THEN max_placeable_height_on_deck(this)
                          + TIP_CLEARANCE_LABWARE
                  ELSE IF use_safest_height
                  THEN inst_max[plan.inst]
                  ELSE max_deck_height + TIP_CLEARANCE_DECK
            /\ (plan.policy = "same") = (this # "None" /\ tracked = this)
            /\ plan.placeable = "deck" => plan.policy # "same"

\* an arc within one container while safest-height mode is on
C20_Witness ==
    /\ ArcPlanned
    /\ use_safest_height
    /\ plan.policy = "same"
    /\ plan.placeable = "plate"
    /\ plan.raw = 25
    /\ plan.raw < inst_max[plan.inst]


\* the moves the last move_to call issued to the instrument it was given
OwnMoves ==
    SelectSeq(plan.events,
              LAMBDA e : e.kind = "move" /\ e.inst = plan.inst)

\* C21: an arc move_to issues exactly three moves to the instrument, in
\* this order: z only, to the arc height; x and y only, to the
\* destination; z only, to the destination z. A direct move_to issues
\* exactly one move, carrying the x, y and z of the target.
C21_ArcThreeLegs ==
    LET xy == DestinationXY(plan.placeable)
    IN  /\ ArcPlanned =>
              /\ Len(OwnMoves) = 3
              /\ OwnMoves[1].x = None /\ OwnMoves[1].y = None
              /\ OwnMoves[1].z = Some(plan.arc_top)
              /\ OwnMoves[2].x = Some(xy[1]) /\ OwnMoves[2].y = Some(xy[2])
              /\ OwnMoves[2].z = None
              /\ OwnMoves[3].x = None /\ OwnMoves[3].y = None
              /\ OwnMoves[3].z = Some(plan.dest_z)
        /\ (plan.op = "move_to" /\ plan.strategy = "direct") =>
              /\ Len(OwnMoves) = 1
              /\ OwnMoves[1].x = Some(xy[1]) /\ OwnMoves[1].y = Some(xy[2])
              /\ OwnMoves[1].z = Some(plan.dest_z)

\* an arc that climbs above both its start and its destination, made
\* just after the other instrument was retracted
C21_Witness ==
    /\ ArcPlanned
    /\ plan.switched
    /\ plan.placeable = "rack"
    /\ plan.arc_top > plan.dest_z
    /\ plan.arc_top > plan.pip_z
    /\ Len(plan.events) = 4

\* C22: move_to with a strategy other than 'arc' or 'direct' fails with
\* the unknown-strategy error and issues no move to the instrument it was
\* given, which stays where it was.
C22_UnknownStrategy ==
    [][ (plan'.op = "move_to" /\ plan'.strategy \notin {"arc", "direct"})
            => /\ plan'.error = "RuntimeError"
               /\ \A i \in 1..Len(plan'.events) :
                     ~(plan'.events[i].kind = "move"
                         /\ plan'.events[i].inst = plan'.inst)
               /\ inst_z'[plan'.inst] = inst_z[plan'.inst] ]_vars

\* a call with an unknown strategy that failed, for an instrument that is
\* below the top of its travel
C22_Witness ==
    /\ plan.op = "move_to"
    /\ plan.strategy = "zigzag"
    /\ plan.error = "RuntimeError"
    /\ inst_z[plan.inst] < inst_max[plan.inst]

\* the positions in the call list of Robot.home of the calls of one kind
StepsOf(kind) ==
    {i \in 1..Len(plan.events) : plan.events[i].kind = kind}

C29_FreshAfterHome ==
    [][ /\ plan'.op \in {"home", "reset"} =>
              /\ previous_instrument' = "None"
              /\ prev_container' = "None"
        /\ (plan.op \in {"home", "reset"} /\ plan'.op = "move_to") =>
              /\ ~plan'.switched
              /\ \A i \in 1..Len(plan'.events) :
                    plan'.events[i].kind # "retract"
        /\ (plan.fresh /\ plan'.op = "move_to" /\ plan'.strategy = "arc")
              => plan'.policy # "same" ]_vars

\* the first arc after a home, into the container the planner tracked
\* before the home
C29_Witness ==
    /\ ArcPlanned
    /\ plan.came_from = "None"
    /\ plan.placeable = "plate"
    /\ last_target = "plate"
    /\ plan.policy = "deck"
    /\ ~plan.switched
    /\ ~plan.fresh

\* C30: a move_to call that fails on an unknown strategy has no effect on
\* the planner: it retracts no instrument and leaves the previous
\* instrument and the previous container as they were.
C30_FailedMoveHasNoEffect ==
    [][ (plan'.op = "move_to" /\ plan'.error # "None") =>
            /\ previous_instrument' = previous_instrument
            /\ prev_container' = prev_container
            /\ inst_z' = inst_z
            /\ plan'.events = << >> ]_vars
\* ========================================================================
\* Properties of the driver's recovery (checked under SpecDrv)
\* ========================================================================
\* the lines written after the first one, the failed move
AfterMove == SubSeq(cmd_list, 2, Len(cmd_list))

\* a move that hit the limit switch of axis C has been dealt with
RecoveredC == phase = "idle" /\ fault = "C" /\ surfaced = "SmoothieError"

\* currents as the move left them, with axis C at the given level
CurrentsWithC(level) ==
    [a \in Axes |-> IF a = "C" THEN level
                    ELSE IF a \in moving THEN "active" ELSE "dwelling"]

\* the four lines of the recovery of axis C
RecoveryOfC ==
    << Line(NoCurrent, RESET_FROM_ERROR, {}),
       Line(CurrentsWithC("active"), HOME, {"C"}),
       Line(CurrentsWithC("dwelling"), SET_CURRENT, {}),
       Line(NoCurrent, CURRENT_POSITION, {}) >>

\* the recovery leaves the currents and homed flags of the other axes alone
OthersUntouched ==
    [][ (fault = "C" /\ phase \in {"alarm", "cleared", "homed", "dwelled"})
            => \A a \in Axes \ {"C"} :
                  current'[a] = current[a] /\ homed'[a] = homed[a] ]_vars

\* C9 as claimed: after a move whose acknowledgement reports a hard-limit
\* alarm on axis C the driver writes exactly clear-alarm, home of C alone at
\* C's active current, C back to dwelling current, position query.
C9_Original == RecoveredC => AfterMove = RecoveryOfC

\* C9 amended: after such a move the driver writes clear-alarm, home of C
\* alone at C's active current, C back to dwelling current, position query,
\* and then one more current line that dwells the plunger axes the move
\* named; while the first four are written the current and the homed flag
\* of every axis other than C stay as they were.
C9_RecoveryOfC ==
    /\ [](RecoveredC =>
            AfterMove = Append(RecoveryOfC,
                               Line(dwell_axes(CurrentsWithC("dwelling"),
                                               moving \cap PlungerAxes),
                                    SET_CURRENT, {})))
    /\ OthersUntouched

\* the move of the contract test, C alone, recovered from an alarm on C
C9_Witness ==
    /\ RecoveredC
    /\ moving = {"C"}
    /\ Len(cmd_list) = 6
    /\ homed["C"]

\* the indices of the lines with a given gcode
LinesWith(gcode) == {i \in DOMAIN cmd_list : cmd_list[i].gcode = gcode}

\* C10: a move that hits a limit switch is written once and never again;
\* its caller gets an error, never a normal return, and gets it only after
\* the alarm was cleared, the faulted axis homed and the position read.
C10_NoResend ==
    /\ Cardinality(LinesWith(MOVE)) <= 1
    /\ (phase # "idle" /\ fault # "None") => surfaced = "none"
    /\ (phase = "idle" /\ fault # "None") =>
          /\ surfaced = "SmoothieError"
          /\ LinesWith(MOVE) = {1}
          /\ \E i, j, k \in DOMAIN cmd_list :
                /\ 1 < i /\ i < j /\ j < k
                /\ cmd_list[i].gcode = RESET_FROM_ERROR
                /\ cmd_list[j] = Line(cmd_list[j].current, HOME, {fault})
                /\ cmd_list[j].current[fault] = "active"
                /\ cmd_list[k].gcode = CURRENT_POSITION
          /\ homed[fault]

\* a move of several axes that hit the limit switch of one of them
C10_Witness ==
    /\ phase = "idle"
    /\ surfaced = "SmoothieError"
    /\ fault = "B"
    /\ moving = {"X", "B"}
    /\ ~(\A a \in Axes : homed[a])

\* a move or a home has returned normally
Completed(gcode) ==
    /\ phase = "idle"
    /\ surfaced = "ok"
    /\ Len(cmd_list) >= 1
    /\ cmd_list[1].gcode = gcode

\* the line of the motion carries the involved axes at active current and
\* every other axis at dwelling current
MotionLineCurrents ==
    (Len(cmd_list) >= 1 /\ cmd_list[1].gcode \in {MOVE, HOME}) =>
        /\ cmd_list[1].axes = moving
        /\ \A a \in Axes :
              cmd_list[1].current[a] =
                  IF a \in moving THEN "active" ELSE "dwelling"

MoveEnds == phase \in {"finally", "raising"} /\ phase' = "idle"

Unanswered == {i \in DOMAIN tries : tries[i] = "no response"}

\* C11: a command whose first two writes get no response and whose third
\* is answered returns that answer without error; a command none of whose
\* writes is answered fails with the no-response error after exactly three
\* writes, and no further write is made.
C11_RetryBudget ==
    /\ Len(tries) <= DEFAULT_COMMAND_RETRIES
    /\ (returned.call = "send" /\ pending = "none"
            /\ tries = <<"no response", "no response", "answer">>)
          => /\ returned.status = "ok"
             /\ returned.answer \in Answers("send")
    /\ (Cardinality(Unanswered) = DEFAULT_COMMAND_RETRIES)
          => pending = "none" /\ returned.status = "SerialNoResponse"
    /\ (returned.status = "SerialNoResponse")
          => /\ Len(tries) = DEFAULT_COMMAND_RETRIES
             /\ Unanswered = DOMAIN tries
    /\ (Cardinality(Unanswered) < DEFAULT_COMMAND_RETRIES)
          => returned.status # "SerialNoResponse"

\* a command answered at its third write
C11_Witness ==
    /\ returned = Returned("send", "ok", <<[axis |-> "-", text |-> "ok"]>>)
    /\ tries = <<"no response", "no response", "answer">>
    /\ pending = "none"

\* the numbers a well-formed response carries
ValuesOf(reading) == [a \in Axes |-> Number(reading[a])]

\* C12: a position query answered by a well-formed response, whether or
\* not a malformed one came before it, ends without error and with the
\* driver position equal to the values of that response; a malformed
\* response leaves the stored position as it was, is read again if it is
\* the first one and ends the query with a parse failure if it is the
\* second in a row.
C12_PositionReread ==
    [][ \A r \in PositionResponses :
          AnsweredRead(r) =>
            IF \E g \in Readings : r = WellFormed(g)
            THEN /\ \E g \in Readings :
                       r = WellFormed(g) /\ driver_position' = ValuesOf(g)
                 /\ returned'.status = "ok"
                 /\ pending' = "none"
            ELSE /\ driver_position' = driver_position
                 /\ IF bad_reads = 0
                    THEN pending' = "update_position"
                            /\ returned'.status = "none"
                    ELSE pending' = "none"
                            /\ returned'.status = "ParseError" ]_vars

\* a query that read a malformed response and then a well-formed one
C12_Witness ==
    /\ returned = Returned("update_position", "ok", NoAnswer)
    /\ bad_reads = 1
    /\ driver_position =
          [a \in Axes |-> IF a = "X" THEN 10 ELSE IF a = "Y" THEN 20 ELSE 0]

\* ========================================================================
\* Properties of pause and resume (checked under SpecGateLive)
\* ========================================================================
\* C13: a motion command that reaches the gate while pause() holds it
\* closed blocks; while it is blocked the tracked position does not change
\* and the command is neither dropped nor carried out; the resume() that
\* opens the gate lets it through, nothing else does; once through it
\* completes at its target.
C13_PauseBlocksMotion ==
    /\ [][ (mover.pc = "at_gate" /\ ~run_flag /\ mover' # mover)
              => mover' = Mover("blocked", mover.target, TRUE)
                    /\ pose' = pose ]_vars
    /\ [][ mover.pc = "blocked" =>
              /\ pose' = pose
              /\ ~run_flag
              /\ mover' = IF run_flag'
                          THEN Mover("moving", mover.target, TRUE)
                          ELSE mover ]_vars
    /\ \A t \in MoveTargets :
          (mover = Mover("moving", t, TRUE))
              ~> (mover = Mover("idle", t, TRUE) /\ pose = t)

\* the command of the test: blocked while paused, through at the resume
\* and arrived at its target
C13_Witness ==
    /\ mover = Mover("idle", <<100, 0, 0>>, TRUE)
    /\ pose = <<100, 0, 0>>
    /\ run_flag
    /\ ~simulating


\* C26: a status query never waits for the gate: issued while the driver
\* is paused, it is sent and answered with no resume(), and it is never
\* left blocked.
C26_QueriesBypassGate ==
    /\ [](query.pc # "blocked")
    /\ [][ (query.pc = "sending" /\ query' # query) =>
              /\ query' = Query("answered", query.command, ~run_flag)
              /\ run_flag' = run_flag ]_vars
    /\ \A c \in StatusQueries :
          (query.pc = "sending" /\ query.command = c)
              ~> (query.pc = "answered" /\ query.command = c)

\* a position query answered while the gate is closed and a motion
\* command waits at it
C26_Witness ==
    /\ query = Query("answered", "M114.2", TRUE)
    /\ ~run_flag
    /\ ~simulating
    /\ mover.pc = "blocked"
    /\ pose = homed_coords

\* C27 as claimed: pause() leaves the driver paused and resume() leaves
\* it running, whatever the gate was before and however many calls came
\* before, so that the gate is as the last call set it.
C27_Original ==
    /\ gate_call.op = "pause" => ~run_flag
    /\ gate_call.op = "resume" => run_flag

\* C27 amended: while the driver is not simulating, pause() leaves the
\* gate closed and resume() leaves it open whatever it was before, so
\* that pausing a paused driver and resuming a running one change
\* nothing and one resume() opens the gate after any number of pause()
\* calls; while the driver is simulating, pause() and resume() leave the
\* gate as it is.
C27_PauseResumeIdempotent ==
    /\ [](gate_call = GateCall("pause", FALSE) => ~run_flag)
    /\ [](gate_call = GateCall("resume", FALSE) => run_flag)
    /\ [][ gate_call'.simulated => run_flag' = run_flag ]_vars
    /\ [][ gate_call' = gate_call => run_flag' = run_flag ]_vars

\* the gate was closed by a pause() of a driver that was not simulating;
\* the resume() of the driver, now simulating, has left it closed and the
\* motion command blocked
C27_Witness ==
    /\ gate_call = GateCall("resume", TRUE)
    /\ ~run_flag
    /\ simulating
    /\ mover.pc = "blocked"

\* ------------------------------------------------------------------------
\* C36: pause() of a simulating driver does not close the gate: a run flag
\* that was set is still set after the call, and a motion command that
\* comes to the gate after it goes through without waiting.
\* ------------------------------------------------------------------------
SimulatedPause == GateCall("pause", TRUE)

C36_SimulatingPauseKeepsGate ==
    /\ [][ (run_flag /\ gate_call' = SimulatedPause) => run_flag' ]_vars
    /\ [][ (run_flag /\ gate_call = SimulatedPause /\ mover.pc = "at_gate"
            /\ mover'.pc # "at_gate") =>
              mover' = Mover("moving", mover.target, FALSE) ]_vars

\* with pause() of the simulating driver the last call made, the gate is
\* open and the motion command is on its way without having waited
C36_Witness ==
    /\ gate_call = SimulatedPause
    /\ simulating
    /\ run_flag
    /\ mover.pc = "moving"
    /\ ~mover.waited
\* ========================================================================
\* Properties of the motor currents (checked under SpecCur)
\* ========================================================================
\* the calls that change, activate or dwell the current of a set of axes
OnAxes ==
    {"activate_axes", "dwell_axes", "set_active_current",
     "set_dwelling_current"}

C25_PushPopRestores ==
    [][ (cur_call'.op = "pop_active_current" /\ current_stack # << >>) =>
            LET top == current_stack[Len(current_stack)]
            IN  /\ active_current_settings' = top.active_then
                /\ dwelling_current_settings' = dwelling_current_settings
                /\ ~top.other_since =>
                      dwelling_current_settings' = top.dwelling_then
                /\ current_stack' =
                      SubSeq(current_stack, 1, Len(current_stack) - 1) ]_vars

\* the inner pop of two nested pairs, each with a set_active_current
\* inside: it brings back the settings of the inner push, which are not
\* those the outer push saved, while an axis is active
C25_Witness ==
    /\ cur_call.op = "pop_active_current"
    /\ cur_call.had_set
    /\ cur_call.changed
    /\ Len(current_stack) = 1
    /\ current_stack[1].set_since
    /\ ~current_stack[1].other_since
    /\ active_current_settings # current_stack[1].active_then
    /\ active_axes["A"]
    /\ amperage["A"] = active_current_settings["A"]

C39_CacheNeverStale ==
    ~IsNone(height_cache) => Val(height_cache) = deck_max_z(deck_poses)
====
